---- MODULE Spec2Model ----
(***************************************************************************)
(* Model of the u32 instruction lowering (assembly/.../u32_ops.rs), of the *)
(* bitwise trace generator (processor/src/bitwise/mod.rs) and of the stack *)
(* machine that executes the lowered operations.                           *)
(*                                                                         *)
(* Field elements and u64 values exceed the range of TLC's integers, so a  *)
(* natural number is a little-endian sequence of 4-bit digits without high *)
(* zero digits (zero is << >>).  Every arithmetic operator below works on  *)
(* that representation at full width: 32-bit words stay 32 bits wide,      *)
(* field elements stay reduced modulo 2^64 - 2^32 + 1.                     *)
(***************************************************************************)
EXTENDS Integers, Sequences, FiniteSets, TLC

VARIABLES trace, invocations, lastCall,
          span, asmResult, instr, prev, stack, advice, initStack, initAdvice, status,
          errCode, fragment, fill, injector, rendered

bitwiseVars == <<trace, invocations, lastCall>>
asmVars == <<span, asmResult, instr, prev>>
vmVars == <<stack, advice, initStack, initAdvice, status, errCode>>
fillVars == <<fragment, fill>>
displayVars == <<injector, rendered>>
vars == <<trace, invocations, lastCall,
          span, asmResult, instr, prev, stack, advice, initStack, initAdvice, status,
          errCode, fragment, fill, injector, rendered>>

(***************************************************************************)
(* Natural numbers as little-endian sequences of hexadecimal digits.       *)
(***************************************************************************)
RECURSIVE Trim(_)
Trim(x) ==
    IF x = <<>> THEN <<>>
    ELSE IF x[Len(x)] = 0 THEN Trim(SubSeq(x, 1, Len(x) - 1))
    ELSE x

RECURSIVE Big(_)
Big(n) ==
    IF n = 0 THEN <<>> ELSE <<n % 16>> \o Big(n \div 16)

Digit(x, i) ==
    IF i <= Len(x) THEN x[i] ELSE 0

Rest(x) ==
    IF x = <<>> THEN <<>> ELSE Tail(x)

\* x * 16^k
ShiftDigits(x, k) ==
    IF x = <<>> THEN <<>> ELSE [i \in 1..k |-> 0] \o x

\* x mod 16^k
LowDigits(x, k) ==
    Trim(SubSeq(x, 1, IF Len(x) < k THEN Len(x) ELSE k))

\* x div 16^k
HighDigits(x, k) ==
    SubSeq(x, k + 1, Len(x))

RECURSIVE BAddC(_, _, _)
BAddC(x, y, c) ==
    IF x = <<>> /\ y = <<>>
    THEN (IF c = 0 THEN <<>> ELSE <<c>>)
    ELSE LET s == Digit(x, 1) + Digit(y, 1) + c
         IN  <<s % 16>> \o BAddC(Rest(x), Rest(y), s \div 16)

BAdd(x, y) ==
    BAddC(x, y, 0)

\* x - y for x >= y
RECURSIVE BSubC(_, _, _)
BSubC(x, y, c) ==
    IF x = <<>> THEN <<>>
    ELSE LET d == x[1] - Digit(y, 1) - c
         IN  IF d < 0
             THEN <<d + 16>> \o BSubC(Tail(x), Rest(y), 1)
             ELSE <<d>> \o BSubC(Tail(x), Rest(y), 0)

BSub(x, y) ==
    Trim(BSubC(x, y, 0))

\* the highest digit position at which x and y differ, 0 if none (equal lengths)
RECURSIVE TopDiff(_, _, _)
TopDiff(x, y, i) ==
    IF i = 0 THEN 0
    ELSE IF x[i] # y[i] THEN i
    ELSE TopDiff(x, y, i - 1)

BLess(x, y) ==
    IF Len(x) # Len(y) THEN Len(x) < Len(y)
    ELSE LET i == TopDiff(x, y, Len(x))
         IN  i # 0 /\ x[i] < y[i]

BLeq(x, y) ==
    x = y \/ BLess(x, y)

RECURSIVE BMulDigitC(_, _, _)
BMulDigitC(x, d, c) ==
    IF x = <<>>
    THEN (IF c = 0 THEN <<>> ELSE <<c>>)
    ELSE LET s == x[1] * d + c
         IN  <<s % 16>> \o BMulDigitC(Tail(x), d, s \div 16)

BMulDigit(x, d) ==
    IF d = 0 THEN <<>> ELSE BMulDigitC(x, d, 0)

RECURSIVE BMul(_, _)
BMul(x, y) ==
    IF x = <<>> \/ y = <<>> THEN <<>>
    ELSE BAdd(BMulDigit(x, y[1]), ShiftDigits(BMul(x, Tail(y)), 1))

\* the largest d with d * y <= r, and r - d * y (y # 0, r < 16 * y)
RECURSIVE QuotDigit(_, _)
QuotDigit(r, y) ==
    IF BLess(r, y) THEN [q |-> 0, r |-> r]
    ELSE LET n == QuotDigit(BSub(r, y), y)
         IN  [q |-> n.q + 1, r |-> n.r]

\* long division, most significant digit of x first; i digits of x remain
RECURSIVE DivLoop(_, _, _, _, _)
DivLoop(x, y, i, q, r) ==
    IF i = 0 THEN [q |-> Trim(q), r |-> r]
    ELSE LET s == QuotDigit(Trim(<<x[i]>> \o r), y)
         IN  CASE s.q \in 0..15 -> DivLoop(x, y, i - 1, <<s.q>> \o q, s.r)

BDivMod(x, y) ==
    DivLoop(x, y, Len(x), <<>>, <<>>)

BDiv(x, y) ==
    BDivMod(x, y).q

BMod(x, y) ==
    IF BLess(x, y) THEN x ELSE BDivMod(x, y).r

Pow2Small(k) ==
    CASE k = 0 -> 1 [] k = 1 -> 2 [] k = 2 -> 4 [] k = 3 -> 8 [] OTHER -> 16

\* 2^k
Pow2(k) ==
    [i \in 1..(k \div 4) |-> 0] \o <<Pow2Small(k % 4)>>

\* x >> bits
Shr(x, bits) ==
    LET y == HighDigits(x, bits \div 4)
        r == bits % 4
    IN  IF r = 0 THEN y
        ELSE Trim([i \in 1..Len(y) |->
                     (y[i] \div Pow2Small(r))
                     + (Digit(y, i + 1) % Pow2Small(r)) * Pow2Small(4 - r)])

\* x << bits
Shl(x, bits) ==
    BMul(x, Pow2(bits))

\* the bit of weight 2^i of the digit d
BitOf(d, i) ==
    (d \div Pow2Small(i)) % 2

AndDigit(d, e) ==
    BitOf(d, 0) * BitOf(e, 0) + 2 * (BitOf(d, 1) * BitOf(e, 1))
    + 4 * (BitOf(d, 2) * BitOf(e, 2)) + 8 * (BitOf(d, 3) * BitOf(e, 3))

XorDigit(d, e) ==
    ((BitOf(d, 0) + BitOf(e, 0)) % 2) + 2 * ((BitOf(d, 1) + BitOf(e, 1)) % 2)
    + 4 * ((BitOf(d, 2) + BitOf(e, 2)) % 2) + 8 * ((BitOf(d, 3) + BitOf(e, 3)) % 2)

OrDigit(d, e) ==
    d + e - AndDigit(d, e)

MaxLen(x, y) ==
    IF Len(x) < Len(y) THEN Len(y) ELSE Len(x)

\* x & y, x | y, x ^ y on u64 values
BAnd(x, y) ==
    Trim([i \in 1..MaxLen(x, y) |-> AndDigit(Digit(x, i), Digit(y, i))])

BOr(x, y) ==
    Trim([i \in 1..MaxLen(x, y) |-> OrDigit(Digit(x, i), Digit(y, i))])

BXor(x, y) ==
    Trim([i \in 1..MaxLen(x, y) |-> XorDigit(Digit(x, i), Digit(y, i))])

\* the number with the given hexadecimal digits, most significant first
Hex(ds) ==
    Trim([i \in 1..Len(ds) |-> ds[Len(ds) + 1 - i]])

(***************************************************************************)
(* Field elements: Felt::new reduces a u64 modulo M = 2^64 - 2^32 + 1 and  *)
(* as_int returns the canonical representative.                            *)
(***************************************************************************)
FeltModulus ==
    Hex(<<15, 15, 15, 15, 15, 15, 15, 15, 0, 0, 0, 0, 0, 0, 0, 1>>)

ZERO == <<>>

ONE == <<1>>

U32_MAX ==
    Hex(<<15, 15, 15, 15, 15, 15, 15, 15>>)

TWO_POW_32 ==
    Pow2(32)

Felt_new(x) ==
    BMod(x, FeltModulus)

IsU32(x) ==
    Len(x) <= 8

FeltAdd(x, y) ==
    Felt_new(BAdd(x, y))

FeltNeg(x) ==
    IF x = ZERO THEN ZERO ELSE BSub(FeltModulus, x)

FeltMul(x, y) ==
    Felt_new(BMul(x, y))

(***************************************************************************)
(* Bitwise trace generator (processor/src/bitwise/mod.rs).                 *)
(* The trace is an array of TRACE_WIDTH columns, each a vector of field    *)
(* elements.                                                               *)
(***************************************************************************)
TRACE_WIDTH == 11

\* Bitwise::new: every column empty
Bitwise_new ==
    [c \in 0..(TRACE_WIDTH - 1) |-> <<>>]

trace_len(t) ==
    Len(t[0])

\* a faulty add_trace_row: the bits are stored most significant first
add_trace_row_msb_first(t, a, b) ==
    [t EXCEPT ![0] = Append(@, Felt_new(a)),
              ![1] = Append(@, Felt_new(b)),
              ![2] = Append(@, Felt_new(BAnd(Shr(a, 3), Big(1)))),
              ![3] = Append(@, Felt_new(BAnd(Shr(a, 2), Big(1)))),
              ![4] = Append(@, Felt_new(BAnd(Shr(a, 1), Big(1)))),
              ![5] = Append(@, Felt_new(BAnd(a, Big(1)))),
              ![6] = Append(@, Felt_new(BAnd(Shr(b, 3), Big(1)))),
              ![7] = Append(@, Felt_new(BAnd(Shr(b, 2), Big(1)))),
              ![8] = Append(@, Felt_new(BAnd(Shr(b, 1), Big(1)))),
              ![9] = Append(@, Felt_new(BAnd(b, Big(1))))]

\* a faulty add_trace_row: the push to column 9 is missing
add_trace_row_short(t, a, b) ==
    [t EXCEPT ![0] = Append(@, Felt_new(a)),
              ![1] = Append(@, Felt_new(b)),
              ![2] = Append(@, Felt_new(BAnd(a, Big(1)))),
              ![3] = Append(@, Felt_new(BAnd(Shr(a, 1), Big(1)))),
              ![4] = Append(@, Felt_new(BAnd(Shr(a, 2), Big(1)))),
              ![5] = Append(@, Felt_new(BAnd(Shr(a, 3), Big(1)))),
              ![6] = Append(@, Felt_new(BAnd(b, Big(1)))),
              ![7] = Append(@, Felt_new(BAnd(Shr(b, 1), Big(1)))),
              ![8] = Append(@, Felt_new(BAnd(Shr(b, 2), Big(1))))]

\* pushes one cell to each of the columns 0..9
add_trace_row(t, a, b) ==
    [t EXCEPT ![0] = Append(@, Felt_new(a)),
              ![1] = Append(@, Felt_new(b)),
              ![2] = Append(@, Felt_new(BAnd(a, Big(1)))),
              ![3] = Append(@, Felt_new(BAnd(Shr(a, 1), Big(1)))),
              ![4] = Append(@, Felt_new(BAnd(Shr(a, 2), Big(1)))),
              ![5] = Append(@, Felt_new(BAnd(Shr(a, 3), Big(1)))),
              ![6] = Append(@, Felt_new(BAnd(b, Big(1)))),
              ![7] = Append(@, Felt_new(BAnd(Shr(b, 1), Big(1)))),
              ![8] = Append(@, Felt_new(BAnd(Shr(b, 2), Big(1)))),
              ![9] = Append(@, Felt_new(BAnd(Shr(b, 3), Big(1))))]

\* (0..32).step_by(4).rev(): 28, 24, ..., 0
BitOffsets ==
    [i \in 1..8 |-> 32 - 4 * i]

\* a faulty result_4_bit: the & 0xF is missing
Limb4_unmasked(op, a, b) ==
    CASE op = "and" -> BAnd(a, b)
      [] op = "or"  -> BOr(a, b)
      [] op = "xor" -> BXor(a, b)

\* result_4_bit of the three operations
Limb4(op, a, b) ==
    CASE op = "and" -> BAnd(BAnd(a, b), Big(15))
      [] op = "or"  -> BAnd(BOr(a, b), Big(15))
      [] op = "xor" -> BAnd(BXor(a, b), Big(15))

\* a faulty loop: column 10 receives the 4-bit result of the row instead of
\* the accumulator
RECURSIVE BitwiseLoop_push_limb(_, _, _, _, _, _)
BitwiseLoop_push_limb(op, t, a, b, result, offsets) ==
    IF offsets = <<>> THEN [trace |-> t, result |-> Felt_new(result), res |-> "ok"]
    ELSE LET as == Shr(a, Head(offsets))
             bs == Shr(b, Head(offsets))
             t1 == add_trace_row(t, as, bs)
             result_4_bit == Limb4(op, as, bs)
             acc == BOr(Shl(result, 4), result_4_bit)
             t2 == [t1 EXCEPT ![10] = Append(@, Felt_new(result_4_bit))]
         IN  BitwiseLoop_push_limb(op, t2, a, b, acc, Tail(offsets))

\* the loop over bit_offset shared by u32and, u32or and u32xor; offsets are
\* the iterations still to run
RECURSIVE BitwiseLoop(_, _, _, _, _, _)
BitwiseLoop(op, t, a, b, result, offsets) ==
    IF offsets = <<>> THEN [trace |-> t, result |-> Felt_new(result), res |-> "ok"]
    ELSE LET as == Shr(a, Head(offsets))
             bs == Shr(b, Head(offsets))
             t1 == add_trace_row(t, as, bs)
             result_4_bit == Limb4(op, as, bs)
             acc == BOr(Shl(result, 4), result_4_bit)
             t2 == [t1 EXCEPT ![10] = Append(@, Felt_new(acc))]
         IN  BitwiseLoop(op, t2, a, b, acc, Tail(offsets))

\* a faulty u32and: the rows are written to a fresh table
u32and_fresh_table(t, a, b) ==
    BitwiseLoop("and", Bitwise_new, a, b, ZERO, BitOffsets)

\* a faulty u32and: the limbs are combined with | as in u32or
u32and_with_or(t, a, b) ==
    BitwiseLoop("or", t, a, b, ZERO, BitOffsets)

Bitwise_u32and(t, a, b) ==
    BitwiseLoop("and", t, a, b, ZERO, BitOffsets)

Bitwise_u32or(t, a, b) ==
    BitwiseLoop("or", t, a, b, ZERO, BitOffsets)

Bitwise_u32xor(t, a, b) ==
    BitwiseLoop("xor", t, a, b, ZERO, BitOffsets)

(***************************************************************************)
(* fill_trace.  A trace fragment is a sequence of columns of equal length  *)
(* (at least one column); a cell not written yet holds Blank.              *)
(* debug_assert_eq! is compiled in only when debug assertions are enabled, *)
(* so the build is an input of the call.                                   *)
(***************************************************************************)
Blank == <<16>>

BlankFragment(width, len) ==
    [c \in 1..width |-> [row \in 1..len |-> Blank]]

\* TraceFragment::width and TraceFragment::len
Fragment_width(frag) ==
    Len(frag)

Fragment_len(frag) ==
    Len(frag[1])

RECURSIVE CopyColumns(_, _, _)
\* the loop over trace.columns().zip(self.trace), from column c on;
\* copy_from_slice panics when the two slices differ in length
CopyColumns(t, frag, c) ==
    IF c >= TRACE_WIDTH \/ c >= Fragment_width(frag)
    THEN [fragment |-> frag, status |-> "returned"]
    ELSE IF Len(frag[c + 1]) # Len(t[c])
    THEN [fragment |-> frag, status |-> "panicked"]
    ELSE CopyColumns(t, [frag EXCEPT ![c + 1] = t[c]], c + 1)

fill_trace(t, frag, debug_assertions) ==
    IF debug_assertions /\ trace_len(t) # Fragment_len(frag)
    THEN [fragment |-> frag, status |-> "panicked"]
    ELSE IF debug_assertions /\ TRACE_WIDTH # Fragment_width(frag)
    THEN [fragment |-> frag, status |-> "panicked"]
    ELSE CopyColumns(t, frag, 0)

NoFill ==
    [status |-> "none", debug_assertions |-> FALSE]

\* the widths and lengths of the fragments handed to fill_trace
FragmentWidths ==
    {1, TRACE_WIDTH - 1, TRACE_WIDTH, TRACE_WIDTH + 1}

FragmentLens(t) ==
    {trace_len(t), trace_len(t) + 1} \cup (IF trace_len(t) > 0 THEN {trace_len(t) - 1} ELSE {})

\* fill_trace consumes the helper: nothing is invoked on it afterwards
FillTrace ==
    /\ fill.status = "none"
    /\ \E w \in FragmentWidths, l \in FragmentLens(trace), dbg \in BOOLEAN :
          \E r \in {fill_trace(trace, BlankFragment(w, l), dbg)} :
              /\ fragment' = r.fragment
              /\ fill' = [status |-> r.status, debug_assertions |-> dbg]
    /\ UNCHANGED <<bitwiseVars, asmVars, vmVars, displayVars>>

(***************************************************************************)
(* The trace generator as a state machine: a run of the VM invokes the     *)
(* three operations in any order on any operands.                          *)
(***************************************************************************)
MaxInvocations == 2

\* the operand pairs (a, b) the operations are invoked on
BitwiseOperands ==
    { <<ZERO, ZERO>>,
      <<U32_MAX, U32_MAX>>,
      <<U32_MAX, Hex(<<1, 2, 3, 4, 5, 6, 7, 8>>)>>,
      <<Hex(<<1, 2, 3, 4, 5, 6, 7, 8>>), Hex(<<8, 0, 0, 0, 15, 0, 10, 5>>)>>,
      <<Hex(<<13, 14, 10, 13, 11, 14, 14, 15>>), Hex(<<0, 15, 0, 15, 3, 3, 5, 5>>)>>,
      <<ONE, Hex(<<8, 0, 0, 0, 0, 0, 0, 1>>)>> }

NoCall ==
    [op |-> "none", a |-> ZERO, b |-> ZERO, result |-> ZERO, res |-> "none", start |-> 0]

\* one call of an operation; r is what it returns and the trace it leaves
BitwiseCall(op, a, b, r) ==
    /\ trace' = r.trace
    /\ invocations' = invocations + 1
    /\ lastCall' = [op |-> op, a |-> a, b |-> b, result |-> r.result, res |-> r.res,
                    start |-> trace_len(trace)]
    /\ UNCHANGED <<asmVars, vmVars, fillVars, displayVars>>

Invoke_u32and ==
    /\ fill.status = "none"
    /\ invocations < MaxInvocations
    /\ \E p \in BitwiseOperands :
          \E r \in {Bitwise_u32and(trace, p[1], p[2])} : BitwiseCall("and", p[1], p[2], r)

Invoke_u32or ==
    /\ fill.status = "none"
    /\ invocations < MaxInvocations
    /\ \E p \in BitwiseOperands :
          \E r \in {Bitwise_u32or(trace, p[1], p[2])} : BitwiseCall("or", p[1], p[2], r)

Invoke_u32xor ==
    /\ fill.status = "none"
    /\ invocations < MaxInvocations
    /\ \E p \in BitwiseOperands :
          \E r \in {Bitwise_u32xor(trace, p[1], p[2])} : BitwiseCall("xor", p[1], p[2], r)

(***************************************************************************)
(* One call on arbitrary field elements: the operands are canonical values *)
(* below the modulus, of 32 bits or more, chosen before the call.          *)
(***************************************************************************)
FieldOperands ==
    { ZERO,
      Hex(<<1, 2, 3, 4, 5, 6, 7, 8>>),
      U32_MAX,
      TWO_POW_32,
      Hex(<<1, 2, 3, 4, 5, 6, 7, 8, 9>>),
      Hex(<<13, 14, 10, 13, 11, 14, 14, 15, 0, 15, 0, 15, 3, 3, 5, 5>>),
      BSub(FeltModulus, ONE) }

\* the call that is about to be made on the operands a and b
PendingCall(a, b) ==
    [op |-> "pending", a |-> a, b |-> b, result |-> ZERO, res |-> "none", start |-> 0]

Apply_u32and ==
    /\ fill.status = "none"
    /\ lastCall.op = "pending"
    /\ \E r \in {Bitwise_u32and(trace, lastCall.a, lastCall.b)} :
          BitwiseCall("and", lastCall.a, lastCall.b, r)

Apply_u32or ==
    /\ fill.status = "none"
    /\ lastCall.op = "pending"
    /\ \E r \in {Bitwise_u32or(trace, lastCall.a, lastCall.b)} :
          BitwiseCall("or", lastCall.a, lastCall.b, r)

Apply_u32xor ==
    /\ fill.status = "none"
    /\ lastCall.op = "pending"
    /\ \E r \in {Bitwise_u32xor(trace, lastCall.a, lastCall.b)} :
          BitwiseCall("xor", lastCall.a, lastCall.b, r)

(***************************************************************************)
(* Span builder and primitive operations.  An operation is a record        *)
(* [name, arg]; arg is the embedded field element of Push, Assert and      *)
(* U32assert2 and << >> otherwise.  A span holds the operations and the    *)
(* advice injectors (decorators) pushed so far.                            *)
(***************************************************************************)
Op(name) ==
    [name |-> name, arg |-> <<>>]

OpArg(name, arg) ==
    [name |-> name, arg |-> arg]

Push(v) ==
    OpArg("Push", v)

EmptySpan ==
    [ops |-> <<>>, decorators |-> <<>>]

push_op(sp, op) ==
    [sp EXCEPT !.ops = Append(@, op)]

push_ops(sp, ops) ==
    [sp EXCEPT !.ops = @ \o ops]

push_advice_injector(sp, inj) ==
    [sp EXCEPT !.decorators = Append(@, [at |-> Len(sp.ops), injector |-> inj])]

Ok(sp) ==
    [span |-> sp, res |-> "ok"]

Err(sp, e) ==
    [span |-> sp, res |-> e]

add_op(sp, op) ==
    Ok(push_op(sp, op))

add_ops(sp, ops) ==
    Ok(push_ops(sp, ops))

\* Option values: None is << >>, Some(v) is <<v>>
None == <<>>

Some(v) == <<v>>

MAX_U32_SHIFT_VALUE == 31

MAX_U32_ROTATE_VALUE == 31

\* validate_param(value, lo..=hi)
validate_param(value, lo, hi) ==
    IF lo <= value /\ value <= hi THEN "ok" ELSE "param_out_of_bounds"

\* push_u32_value: Pad for 0, Pad Incr for 1, Push(value) otherwise
push_u32_value(sp, value) ==
    IF value = ZERO THEN push_op(sp, Op("Pad"))
    ELSE IF value = ONE THEN push_ops(sp, <<Op("Pad"), Op("Incr")>>)
    ELSE push_op(sp, Push(value))

\* append_pow2_op: [exp, ...] -> [2^exp, ...], 16 operations
append_pow2_op(sp) ==
    push_ops(sp,
        <<Push(Big(2)), Op("Pad"), Op("Incr"), Op("Swap"), Op("Pad"),
          Op("Expacc"), Op("Expacc"), Op("Expacc"),
          Op("Expacc"), Op("Expacc"), Op("Expacc"),
          Op("Drop"), Op("Drop"),
          Op("Swap"), Op("Eqz"), OpArg("Assert", ZERO)>>)

(***************************************************************************)
(* Lowering of the u32 instructions (assembler/instruction/u32_ops.rs).    *)
(* Each function takes the span and returns the span it leaves and its     *)
(* result: "ok" or the AssemblyError.                                      *)
(***************************************************************************)
\* a faulty u32assertw: the second assertion carries error code 0
u32assertw_second_code_zero(sp, err_code) ==
    add_ops(sp, <<OpArg("U32assert2", err_code), Op("MovUp3"), Op("MovUp3"),
                  OpArg("U32assert2", ZERO), Op("MovUp3"), Op("MovUp3")>>)

u32assertw(sp, err_code) ==
    add_ops(sp, <<OpArg("U32assert2", err_code), Op("MovUp3"), Op("MovUp3"),
                  OpArg("U32assert2", err_code), Op("MovUp3"), Op("MovUp3")>>)

\* a faulty handle_arithmetic_operation: the test of op_mode is inverted
handle_arithmetic_operation_inverted(sp, op, op_mode, imm) ==
    LET s1 == IF imm # None THEN push_u32_value(sp, imm[1]) ELSE sp
        s2 == push_op(s1, op)
    IN  IF op_mode # "Wrapping" THEN add_op(s2, Op("Drop")) ELSE Ok(s2)

\* a faulty handle_arithmetic_operation: the immediate is pushed after op
handle_arithmetic_operation_op_first(sp, op, op_mode, imm) ==
    LET s1 == push_op(sp, op)
        s2 == IF imm # None THEN push_u32_value(s1, imm[1]) ELSE s1
    IN  IF op_mode = "Wrapping" THEN add_op(s2, Op("Drop")) ELSE Ok(s2)

handle_arithmetic_operation(sp, op, op_mode, imm) ==
    LET s1 == IF imm # None THEN push_u32_value(sp, imm[1]) ELSE sp
        s2 == push_op(s1, op)
    IN  IF op_mode = "Wrapping" THEN add_op(s2, Op("Drop")) ELSE Ok(s2)

u32add(sp, op_mode, imm) ==
    handle_arithmetic_operation(sp, Op("U32add"), op_mode, imm)

u32sub(sp, op_mode, imm) ==
    handle_arithmetic_operation(sp, Op("U32sub"), op_mode, imm)

u32mul(sp, op_mode, imm) ==
    handle_arithmetic_operation(sp, Op("U32mul"), op_mode, imm)

\* a faulty handle_division: the immediate is pushed before it is compared to 0
handle_division_push_first(sp, imm) ==
    LET s1 == IF imm # None THEN push_u32_value(sp, imm[1]) ELSE sp
    IN  IF imm # None /\ imm[1] = ZERO THEN Err(s1, "division_by_zero")
        ELSE add_op(s1, Op("U32div"))

handle_division(sp, imm) ==
    IF imm # None /\ imm[1] = ZERO THEN Err(sp, "division_by_zero")
    ELSE add_op(IF imm # None THEN push_u32_value(sp, imm[1]) ELSE sp, Op("U32div"))

u32div(sp, imm) ==
    LET r == handle_division(sp, imm)
    IN  IF r.res # "ok" THEN r ELSE add_op(r.span, Op("Drop"))

\* a faulty u32mod: the Swap before Drop is missing
u32mod_no_swap(sp, imm) ==
    LET r == handle_division(sp, imm)
    IN  IF r.res # "ok" THEN r ELSE add_ops(r.span, <<Op("Drop")>>)

u32mod(sp, imm) ==
    LET r == handle_division(sp, imm)
    IN  IF r.res # "ok" THEN r ELSE add_ops(r.span, <<Op("Swap"), Op("Drop")>>)

u32divmod(sp, imm) ==
    handle_division(sp, imm)

\* a faulty u32not: the Swap is missing, so 2^32 - 1 is subtracted from a
u32not_no_swap(sp) ==
    add_ops(sp, <<Push(U32_MAX), OpArg("U32assert2", ZERO),
                  Op("U32sub"), Op("Drop")>>)

u32not(sp) ==
    add_ops(sp, <<Push(U32_MAX), OpArg("U32assert2", ZERO), Op("Swap"),
                  Op("U32sub"), Op("Drop")>>)

\* a faulty prepare_bitwise: the immediate is not validated
prepare_bitwise_unvalidated(MAX_VALUE, sp, imm) ==
    IF imm = Some(0) THEN Ok(push_op(sp, Op("Noop")))
    ELSE IF imm # None
    THEN Ok(push_op(sp, Push(Pow2(imm[1]))))
    ELSE Ok(append_pow2_op(sp))

prepare_bitwise(MAX_VALUE, sp, imm) ==
    IF imm = Some(0) THEN Ok(push_op(sp, Op("Noop")))
    ELSE IF imm # None
    THEN (IF validate_param(imm[1], 1, MAX_VALUE) # "ok"
          THEN Err(sp, validate_param(imm[1], 1, MAX_VALUE))
          ELSE Ok(push_op(sp, Push(Pow2(imm[1])))))
    ELSE Ok(append_pow2_op(sp))

\* a faulty u32shl: U32mul and Drop are added for a shift by 0 too
u32shl_always_mul(sp, imm) ==
    LET r == prepare_bitwise(MAX_U32_SHIFT_VALUE, sp, imm)
    IN  IF r.res # "ok" THEN r
        ELSE add_ops(r.span, <<Op("U32mul"), Op("Drop")>>)

u32shl(sp, imm) ==
    LET r == prepare_bitwise(MAX_U32_SHIFT_VALUE, sp, imm)
    IN  IF r.res # "ok" THEN r
        ELSE IF imm # Some(0) THEN add_ops(r.span, <<Op("U32mul"), Op("Drop")>>)
        ELSE Ok(r.span)

\* a faulty u32shr: the power of two multiplies as in u32shl
u32shr_as_shl(sp, imm) ==
    LET r == prepare_bitwise(MAX_U32_SHIFT_VALUE, sp, imm)
    IN  IF r.res # "ok" THEN r
        ELSE IF imm # Some(0) THEN add_ops(r.span, <<Op("U32mul"), Op("Drop")>>)
        ELSE Ok(r.span)

u32shr(sp, imm) ==
    LET r == prepare_bitwise(MAX_U32_SHIFT_VALUE, sp, imm)
    IN  IF r.res # "ok" THEN r
        ELSE IF imm # Some(0) THEN add_ops(r.span, <<Op("U32div"), Op("Drop")>>)
        ELSE Ok(r.span)

u32rotl(sp, imm) ==
    LET r == prepare_bitwise(MAX_U32_ROTATE_VALUE, sp, imm)
    IN  IF r.res # "ok" THEN r
        ELSE IF imm # Some(0) THEN add_ops(r.span, <<Op("U32mul"), Op("Add")>>)
        ELSE Ok(r.span)

\* a faulty u32rotr: the immediate case multiplies by 2^imm as u32rotl does
u32rotr_as_rotl(sp, imm) ==
    IF imm = Some(0) THEN Ok(push_op(sp, Op("Noop")))
    ELSE IF imm # None
    THEN (IF validate_param(imm[1], 1, MAX_U32_ROTATE_VALUE) # "ok"
          THEN Err(sp, validate_param(imm[1], 1, MAX_U32_ROTATE_VALUE))
          ELSE add_ops(push_op(sp, Push(Pow2(imm[1]))),
                       <<Op("U32mul"), Op("Add")>>))
    ELSE add_ops(append_pow2_op(push_ops(sp,
                    <<Push(Big(32)), Op("Swap"), Op("U32sub"), Op("Drop")>>)),
                 <<Op("U32mul"), Op("Add")>>)

u32rotr(sp, imm) ==
    IF imm = Some(0) THEN Ok(push_op(sp, Op("Noop")))
    ELSE IF imm # None
    THEN (IF validate_param(imm[1], 1, MAX_U32_ROTATE_VALUE) # "ok"
          THEN Err(sp, validate_param(imm[1], 1, MAX_U32_ROTATE_VALUE))
          ELSE add_ops(push_op(sp, Push(Pow2(32 - imm[1]))),
                       <<Op("U32mul"), Op("Add")>>))
    ELSE add_ops(append_pow2_op(push_ops(sp,
                    <<Push(Big(32)), Op("Swap"), Op("U32sub"), Op("Drop")>>)),
                 <<Op("U32mul"), Op("Add")>>)

\* a faulty calculate_clz: the mask is built from 2^32 instead of 2^32 - 1
calculate_clz_pow_mask(sp) ==
    LET s1 == push_ops(sp, <<Op("Swap"), Op("Dup1")>>)
        s2 == append_pow2_op(s1)
    IN  add_ops(s2, <<Push(TWO_POW_32), Op("Swap"), Op("U32div"), Op("Drop"),
                      Op("Dup1"), Op("U32and"),
                      Op("Eq"), OpArg("Assert", ZERO)>>)

calculate_clz(sp) ==
    LET s1 == push_ops(sp, <<Op("Swap"), Op("Dup1")>>)
        s2 == append_pow2_op(s1)
    IN  add_ops(s2, <<Push(U32_MAX), Op("Swap"), Op("U32div"), Op("Drop"),
                      Op("Dup1"), Op("U32and"),
                      Op("Eq"), OpArg("Assert", ZERO)>>)

\* a faulty calculate_ctz: the mask is built from 2^32 - 1 instead of 2^32
calculate_ctz_off_by_one(sp) ==
    LET s1 == push_ops(sp, <<Op("Swap"), Op("Dup1")>>)
        s2 == append_pow2_op(s1)
    IN  add_ops(s2, <<Push(U32_MAX), Op("Swap"), Op("Neg"), Op("Add"),
                      Op("Dup1"), Op("U32and"),
                      Op("Eq"), OpArg("Assert", ZERO)>>)

calculate_ctz(sp) ==
    LET s1 == push_ops(sp, <<Op("Swap"), Op("Dup1")>>)
        s2 == append_pow2_op(s1)
    IN  add_ops(s2, <<Push(BAdd(U32_MAX, ONE)), Op("Swap"), Op("Neg"), Op("Add"),
                      Op("Dup1"), Op("U32and"),
                      Op("Eq"), OpArg("Assert", ZERO)>>)

u32clz(sp) ==
    calculate_clz(push_op(push_advice_injector(sp, "Clz"), Op("AdvPop")))

u32ctz(sp) ==
    calculate_ctz(push_op(push_advice_injector(sp, "Ctz"), Op("AdvPop")))

\* the operations of u32clo and u32cto that complement the operand
ComplementOps ==
    <<Op("Swap"), Op("Neg"), Push(U32_MAX), Op("Add"), Op("Swap")>>

u32clo(sp) ==
    calculate_clz(push_ops(push_op(push_advice_injector(sp, "Clo"), Op("AdvPop")),
                           ComplementOps))

u32cto(sp) ==
    calculate_ctz(push_ops(push_op(push_advice_injector(sp, "Cto"), Op("AdvPop")),
                           ComplementOps))

\* a faulty u32popcnt: the second mask of the 2-bit step is 0x55555555
u32popcnt_wrong_mask(sp) ==
    add_ops(sp,
        <<Op("Dup0"),
          Push(Pow2(1)), Op("U32div"), Op("Drop"),
          Push(Hex(<<5, 5, 5, 5, 5, 5, 5, 5>>)),
          Op("U32and"),
          Op("U32sub"), Op("Drop"),
          Op("Dup0"),
          Push(Pow2(2)), Op("U32div"), Op("Drop"),
          Push(Hex(<<3, 3, 3, 3, 3, 3, 3, 3>>)),
          Op("U32and"),
          Op("Swap"),
          Push(Hex(<<5, 5, 5, 5, 5, 5, 5, 5>>)),
          Op("U32and"),
          Op("U32add"), Op("Drop"),
          Op("Dup0"),
          Push(Pow2(4)), Op("U32div"), Op("Drop"),
          Op("U32add"), Op("Drop"),
          Push(Hex(<<0, 15, 0, 15, 0, 15, 0, 15>>)),
          Op("U32and"),
          Push(Hex(<<0, 1, 0, 1, 0, 1, 0, 1>>)),
          Op("U32mul"), Op("Drop"),
          Push(Pow2(24)), Op("U32div"), Op("Drop")>>)

u32popcnt(sp) ==
    add_ops(sp,
        <<Op("Dup0"),
          Push(Pow2(1)), Op("U32div"), Op("Drop"),
          Push(Hex(<<5, 5, 5, 5, 5, 5, 5, 5>>)),
          Op("U32and"),
          Op("U32sub"), Op("Drop"),
          Op("Dup0"),
          Push(Pow2(2)), Op("U32div"), Op("Drop"),
          Push(Hex(<<3, 3, 3, 3, 3, 3, 3, 3>>)),
          Op("U32and"),
          Op("Swap"),
          Push(Hex(<<3, 3, 3, 3, 3, 3, 3, 3>>)),
          Op("U32and"),
          Op("U32add"), Op("Drop"),
          Op("Dup0"),
          Push(Pow2(4)), Op("U32div"), Op("Drop"),
          Op("U32add"), Op("Drop"),
          Push(Hex(<<0, 15, 0, 15, 0, 15, 0, 15>>)),
          Op("U32and"),
          Push(Hex(<<0, 1, 0, 1, 0, 1, 0, 1>>)),
          Op("U32mul"), Op("Drop"),
          Push(Pow2(24)), Op("U32div"), Op("Drop")>>)

\* a faulty compute_lt: the underflow flag is not negated back
compute_lt_no_not(sp) ==
    push_ops(sp, <<Op("U32sub"), Op("Swap"), Op("Drop"), Op("Eqz")>>)

compute_lt(sp) ==
    push_ops(sp, <<Op("U32sub"), Op("Swap"), Op("Drop"), Op("Eqz"), Op("Not")>>)

u32lt(sp) ==
    Ok(compute_lt(sp))

u32lte(sp) ==
    add_op(compute_lt(push_op(sp, Op("Swap"))), Op("Not"))

u32gt(sp) ==
    Ok(compute_lt(push_op(sp, Op("Swap"))))

u32gte(sp) ==
    add_op(compute_lt(sp), Op("Not"))

\* a faulty compute_max_and_min: the conditional swap is left out
compute_max_and_min_no_cswap(sp) ==
    push_ops(push_ops(sp, <<Op("Dup1"), Op("Dup1")>>),
             <<Op("U32sub"), Op("Swap"), Op("Drop"), Op("Eqz"), Op("Drop")>>)

compute_max_and_min(sp) ==
    push_ops(push_ops(sp, <<Op("Dup1"), Op("Dup1")>>),
             <<Op("U32sub"), Op("Swap"), Op("Drop"), Op("Eqz"), Op("CSwap")>>)

u32min(sp) ==
    add_op(compute_max_and_min(sp), Op("Drop"))

u32max(sp) ==
    add_ops(compute_max_and_min(sp), <<Op("Swap"), Op("Drop")>>)

(***************************************************************************)
(* The stack machine that executes a span.  A machine state is             *)
(* [stack, advice, status]: the operand stack (top first; below its last   *)
(* element the stack holds zeros), the advice stack, and "ok" or the       *)
(* ExecutionError that aborted the run.                                    *)
(***************************************************************************)
Peek(s, i) ==
    IF i <= Len(s) THEN s[i] ELSE ZERO

Pop(s, n) ==
    SubSeq(s, n + 1, Len(s))

Fail(st, e) ==
    [st EXCEPT !.status = e]

\* the failure of an assertion carries the error code embedded in the operation
FailWith(st, e, err_code) ==
    [st EXCEPT !.status = e, !.err_code = err_code]

SetStack(st, s) ==
    [st EXCEPT !.stack = s]

Bool(b) ==
    IF b THEN ONE ELSE ZERO

\* a.wrapping_sub(b) on u64
WrappingSub64(a, b) ==
    IF BLeq(b, a) THEN BSub(a, b) ELSE BSub(Pow2(64), BSub(b, a))

op_u32add(st) ==
    LET b == Peek(st.stack, 1)
        a == Peek(st.stack, 2)
        result == Felt_new(LowDigits(BAdd(a, b), 16))
    IN  SetStack(st, <<HighDigits(result, 8), LowDigits(result, 8)>> \o Pop(st.stack, 2))

op_u32sub(st) ==
    LET b == Peek(st.stack, 1)
        a == Peek(st.stack, 2)
        result == WrappingSub64(a, b)
    IN  SetStack(st, <<Shr(result, 63), LowDigits(result, 8)>> \o Pop(st.stack, 2))

op_u32mul(st) ==
    LET b == Peek(st.stack, 1)
        a == Peek(st.stack, 2)
        result == Felt_new(LowDigits(BMul(a, b), 16))
    IN  SetStack(st, <<HighDigits(result, 8), LowDigits(result, 8)>> \o Pop(st.stack, 2))

op_u32div(st) ==
    LET b == Peek(st.stack, 1)
        a == Peek(st.stack, 2)
        d == BDivMod(a, b)
    IN  IF b = ZERO THEN Fail(st, "DivideByZero")
        ELSE SetStack(st, <<Felt_new(d.r), Felt_new(d.q)>> \o Pop(st.stack, 2))

\* U32and is computed by the bitwise trace generator
op_u32and(st) ==
    LET b == Peek(st.stack, 1)
        a == Peek(st.stack, 2)
    IN  SetStack(st, <<Bitwise_u32and(Bitwise_new, a, b).result>> \o Pop(st.stack, 2))

op_u32assert2(st, err_code) ==
    IF IsU32(Peek(st.stack, 1)) /\ IsU32(Peek(st.stack, 2)) THEN st
    ELSE FailWith(st, "NotU32Value", err_code)

\* [bit, base, acc, exp, ...]
op_expacc(st) ==
    LET base == Peek(st.stack, 2)
        acc == Peek(st.stack, 3)
        exp == Peek(st.stack, 4)
        bit == BAnd(exp, ONE)
        value == IF bit = ONE THEN base ELSE ONE
    IN  SetStack(st, <<bit, FeltMul(base, base), FeltMul(acc, value), Shr(exp, 1)>>
                     \o Pop(st.stack, 4))

ExecOp(op, st) ==
    LET s == st.stack
    IN  CASE op.name = "Noop" -> st
          [] op.name = "Push" -> SetStack(st, <<op.arg>> \o s)
          [] op.name = "Pad" -> SetStack(st, <<ZERO>> \o s)
          [] op.name = "Incr" -> SetStack(st, <<FeltAdd(Peek(s, 1), ONE)>> \o Pop(s, 1))
          [] op.name = "Drop" -> SetStack(st, Pop(s, 1))
          [] op.name = "Swap" -> SetStack(st, <<Peek(s, 2), Peek(s, 1)>> \o Pop(s, 2))
          [] op.name = "Dup0" -> SetStack(st, <<Peek(s, 1)>> \o s)
          [] op.name = "Dup1" -> SetStack(st, <<Peek(s, 2)>> \o s)
          [] op.name = "Dup2" -> SetStack(st, <<Peek(s, 3)>> \o s)
          [] op.name = "Dup3" -> SetStack(st, <<Peek(s, 4)>> \o s)
          [] op.name = "MovUp3" ->
                SetStack(st, <<Peek(s, 4), Peek(s, 1), Peek(s, 2), Peek(s, 3)>> \o Pop(s, 4))
          [] op.name = "Add" ->
                SetStack(st, <<FeltAdd(Peek(s, 2), Peek(s, 1))>> \o Pop(s, 2))
          [] op.name = "Neg" -> SetStack(st, <<FeltNeg(Peek(s, 1))>> \o Pop(s, 1))
          [] op.name = "Eq" ->
                SetStack(st, <<Bool(Peek(s, 1) = Peek(s, 2))>> \o Pop(s, 2))
          [] op.name = "Eqz" -> SetStack(st, <<Bool(Peek(s, 1) = ZERO)>> \o Pop(s, 1))
          [] op.name = "Not" ->
                IF Peek(s, 1) \in {ZERO, ONE}
                THEN SetStack(st, <<Bool(Peek(s, 1) = ZERO)>> \o Pop(s, 1))
                ELSE Fail(st, "NotBinaryValue")
          [] op.name = "CSwap" ->
                IF Peek(s, 1) = ZERO THEN SetStack(st, Pop(s, 1))
                ELSE IF Peek(s, 1) = ONE
                THEN SetStack(st, <<Peek(s, 3), Peek(s, 2)>> \o Pop(s, 3))
                ELSE Fail(st, "NotBinaryValue")
          [] op.name = "Assert" ->
                IF Peek(s, 1) = ONE THEN SetStack(st, Pop(s, 1))
                ELSE FailWith(st, "FailedAssertion", op.arg)
          [] op.name = "AdvPop" ->
                IF st.advice = <<>> THEN Fail(st, "AdviceStackReadFailed")
                ELSE [st EXCEPT !.stack = <<Head(st.advice)>> \o s,
                                !.advice = Tail(st.advice)]
          [] op.name = "U32add" -> op_u32add(st)
          [] op.name = "U32sub" -> op_u32sub(st)
          [] op.name = "U32mul" -> op_u32mul(st)
          [] op.name = "U32div" -> op_u32div(st)
          [] op.name = "U32and" -> op_u32and(st)
          [] op.name = "U32assert2" -> op_u32assert2(st, op.arg)
          [] op.name = "Expacc" -> op_expacc(st)

\* executes ops[i], ops[i + 1], ... in order; an error aborts the run
RECURSIVE Run(_, _, _)
Run(ops, i, st) ==
    IF i > Len(ops) \/ st.status # "ok" THEN st
    ELSE Run(ops, i + 1, ExecOp(ops[i], st))

Execute(ops, s, adv) ==
    Run(ops, 1, [stack |-> s, advice |-> adv, status |-> "ok", err_code |-> ZERO])

(***************************************************************************)
(* Textual form of the advice injectors (core/src/operations/decorators/   *)
(* advice.rs).  An injector is a record with its variant in tag and the    *)
(* fields of the variant; a string is a sequence of characters.            *)
(***************************************************************************)
MaxKeyOffset == 40

MaxDomain == 12

DigitChar(d) ==
    <<"0", "1", "2", "3", "4", "5", "6", "7", "8", "9">>[d + 1]

RECURSIVE Display_usize(_)
\* {key_offset}: decimal, most significant digit first
Display_usize(n) ==
    IF n < 10 THEN <<DigitChar(n)>>
    ELSE Display_usize(n \div 10) \o <<DigitChar(n % 10)>>

RECURSIVE Display_Felt(_)
\* {domain}: the canonical integer of the element in decimal
Display_Felt(x) ==
    IF BLess(x, Big(10)) THEN <<DigitChar(Digit(x, 1))>>
    ELSE Display_Felt(BDiv(x, Big(10))) \o <<DigitChar(Digit(BMod(x, Big(10)), 1))>>

\* {kind}
Display_SignatureKind(kind) ==
    CASE kind = "RpoFalcon512" -> <<"r", "p", "o", "_", "f", "a", "l", "c", "o", "n", "5", "1", "2">>

\* the variants without fields
PlainInjectors ==
    {"MerkleNodeMerge", "MerkleNodeToStack", "UpdateMerkleNode", "DivU64", "Ext2Inv",
     "Ext2Intt", "SmtGet", "SmtSet", "SmtPeek", "Clz", "Ctz", "Clo", "Cto", "ILog2",
     "MemToMap", "HpermToMap"}

AdviceInjector ==
    {[tag |-> t] : t \in PlainInjectors}
    \cup {[tag |-> "MapValueToStack", include_len |-> l, key_offset |-> k] :
            l \in BOOLEAN, k \in 0..MaxKeyOffset}
    \cup {[tag |-> "HdwordToMap", domain |-> d] :
            d \in {Big(n) : n \in 0..MaxDomain} \cup {U32_MAX, BSub(FeltModulus, ONE)}}
    \cup {[tag |-> "SigToStack", kind |-> "RpoFalcon512"]}

NoInjector ==
    [tag |-> "none"]

\* a faulty fmt: the two branches on include_len are exchanged
fmt_len_swapped(inj) ==
    CASE inj.tag = "MerkleNodeMerge" ->
            <<"m", "e", "r", "k", "l", "e", "_", "n", "o", "d", "e", "_", "m", "e", "r", "g", "e">>
      [] inj.tag = "MerkleNodeToStack" ->
            <<"m", "e", "r", "k", "l", "e", "_", "n", "o", "d", "e", "_", "t", "o", "_", "s", "t", "a", "c", "k">>
      [] inj.tag = "UpdateMerkleNode" ->
            <<"u", "p", "d", "a", "t", "e", "_", "m", "e", "r", "k", "l", "e", "_", "n", "o", "d", "e">>
      [] inj.tag = "MapValueToStack" ->
            IF inj.include_len
            THEN <<"m", "a", "p", "_", "v", "a", "l", "u", "e", "_", "t", "o", "_", "s", "t", "a", "c", "k">>
                 \o <<".">> \o Display_usize(inj.key_offset)
            ELSE <<"m", "a", "p", "_", "v", "a", "l", "u", "e", "_", "t", "o", "_", "s", "t", "a", "c", "k", "_", "w", "i", "t", "h", "_", "l", "e", "n">>
                 \o <<".">> \o Display_usize(inj.key_offset)
      [] inj.tag = "DivU64" ->
            <<"d", "i", "v", "_", "u", "6", "4">>
      [] inj.tag = "Ext2Inv" ->
            <<"e", "x", "t", "2", "_", "i", "n", "v">>
      [] inj.tag = "Ext2Intt" ->
            <<"e", "x", "t", "2", "_", "i", "n", "t", "t">>
      [] inj.tag = "SmtGet" ->
            <<"s", "m", "t", "_", "g", "e", "t">>
      [] inj.tag = "SmtSet" ->
            <<"s", "m", "t", "_", "s", "e", "t">>
      [] inj.tag = "SmtPeek" ->
            <<"s", "m", "t", "_", "p", "e", "e", "k">>
      [] inj.tag = "Clz" ->
            <<"u", "3", "2", "c", "l", "z">>
      [] inj.tag = "Ctz" ->
            <<"u", "3", "2", "c", "t", "z">>
      [] inj.tag = "Clo" ->
            <<"u", "3", "2", "c", "l", "o">>
      [] inj.tag = "Cto" ->
            <<"u", "3", "2", "c", "t", "o">>
      [] inj.tag = "ILog2" ->
            <<"i", "l", "o", "g", "2">>
      [] inj.tag = "MemToMap" ->
            <<"m", "e", "m", "_", "t", "o", "_", "m", "a", "p">>
      [] inj.tag = "HdwordToMap" ->
            <<"h", "d", "w", "o", "r", "d", "_", "t", "o", "_", "m", "a", "p">> \o <<".">> \o Display_Felt(inj.domain)
      [] inj.tag = "HpermToMap" ->
            <<"h", "p", "e", "r", "m", "_", "t", "o", "_", "m", "a", "p">>
      [] inj.tag = "SigToStack" ->
            <<"s", "i", "g", "_", "t", "o", "_", "s", "t", "a", "c", "k">> \o <<".">> \o Display_SignatureKind(inj.kind)

\* impl fmt::Display for AdviceInjector
fmt(inj) ==
    CASE inj.tag = "MerkleNodeMerge" ->
            <<"m", "e", "r", "k", "l", "e", "_", "n", "o", "d", "e", "_", "m", "e", "r", "g", "e">>
      [] inj.tag = "MerkleNodeToStack" ->
            <<"m", "e", "r", "k", "l", "e", "_", "n", "o", "d", "e", "_", "t", "o", "_", "s", "t", "a", "c", "k">>
      [] inj.tag = "UpdateMerkleNode" ->
            <<"u", "p", "d", "a", "t", "e", "_", "m", "e", "r", "k", "l", "e", "_", "n", "o", "d", "e">>
      [] inj.tag = "MapValueToStack" ->
            IF inj.include_len
            THEN <<"m", "a", "p", "_", "v", "a", "l", "u", "e", "_", "t", "o", "_", "s", "t", "a", "c", "k", "_", "w", "i", "t", "h", "_", "l", "e", "n">>
                 \o <<".">> \o Display_usize(inj.key_offset)
            ELSE <<"m", "a", "p", "_", "v", "a", "l", "u", "e", "_", "t", "o", "_", "s", "t", "a", "c", "k">>
                 \o <<".">> \o Display_usize(inj.key_offset)
      [] inj.tag = "DivU64" ->
            <<"d", "i", "v", "_", "u", "6", "4">>
      [] inj.tag = "Ext2Inv" ->
            <<"e", "x", "t", "2", "_", "i", "n", "v">>
      [] inj.tag = "Ext2Intt" ->
            <<"e", "x", "t", "2", "_", "i", "n", "t", "t">>
      [] inj.tag = "SmtGet" ->
            <<"s", "m", "t", "_", "g", "e", "t">>
      [] inj.tag = "SmtSet" ->
            <<"s", "m", "t", "_", "s", "e", "t">>
      [] inj.tag = "SmtPeek" ->
            <<"s", "m", "t", "_", "p", "e", "e", "k">>
      [] inj.tag = "Clz" ->
            <<"u", "3", "2", "c", "l", "z">>
      [] inj.tag = "Ctz" ->
            <<"u", "3", "2", "c", "t", "z">>
      [] inj.tag = "Clo" ->
            <<"u", "3", "2", "c", "l", "o">>
      [] inj.tag = "Cto" ->
            <<"u", "3", "2", "c", "t", "o">>
      [] inj.tag = "ILog2" ->
            <<"i", "l", "o", "g", "2">>
      [] inj.tag = "MemToMap" ->
            <<"m", "e", "m", "_", "t", "o", "_", "m", "a", "p">>
      [] inj.tag = "HdwordToMap" ->
            <<"h", "d", "w", "o", "r", "d", "_", "t", "o", "_", "m", "a", "p">> \o <<".">> \o Display_Felt(inj.domain)
      [] inj.tag = "HpermToMap" ->
            <<"h", "p", "e", "r", "m", "_", "t", "o", "_", "m", "a", "p">>
      [] inj.tag = "SigToStack" ->
            <<"s", "i", "g", "_", "t", "o", "_", "s", "t", "a", "c", "k">> \o <<".">> \o Display_SignatureKind(inj.kind)

\* an injector is rendered
Display ==
    \E inj \in AdviceInjector :
        /\ injector' = inj
        /\ rendered' = fmt(inj)
        /\ UNCHANGED <<bitwiseVars, asmVars, vmVars, fillVars>>

(***************************************************************************)
(* The assembler and the processor as a state machine: one instruction is  *)
(* lowered into the span builder (which may already hold the operations of *)
(* an earlier instruction), and a successfully built span is executed on   *)
(* an operand stack and an advice stack supplied by the (untrusted) prover.*)
(***************************************************************************)
MaxCount == 33

Modes ==
    {"Wrapping", "Overflowing"}

\* Option<u32> immediates
Imm32 ==
    {None} \cup {Some(v) : v \in {ZERO, ONE, Big(5), U32_MAX}}

\* Option<u8> immediates: every u8 value
Imm8 ==
    {None} \cup {Some(k) : k \in 0..255}

Operands ==
    { ZERO, ONE, Big(5),
      Hex(<<8, 0, 0, 0, 0, 0, 0, 0>>),
      Hex(<<1, 2, 3, 4, 5, 6, 7, 8>>),
      U32_MAX,
      TWO_POW_32 }

\* the elements of the initial stack below the operands
Below ==
    <<Hex(<<10, 11>>), Hex(<<12, 13>>)>>

\* the instructions that read one operand from the stack: the unary ones, and
\* the binary ones when the second operand is an immediate
IsUnary(i) ==
    \/ i.name \in {"u32not", "u32popcnt", "u32clz", "u32ctz", "u32clo", "u32cto"}
    \/ i.name \notin {"u32assertw"} /\ i.imm # None

\* the elements of the word u32assertw is run on
WordOperands ==
    { ZERO,
      Hex(<<1, 2, 3, 4, 5, 6, 7, 8>>),
      U32_MAX,
      TWO_POW_32,
      BSub(FeltModulus, ONE) }

\* the initial stacks an instruction is run on
InputStacks(i) ==
    IF i.name = "u32assertw"
    THEN {<<e0, e1, e2, e3>> \o Below : e0 \in WordOperands, e1 \in WordOperands,
                                         e2 \in WordOperands, e3 \in WordOperands}
    ELSE IF IsUnary(i)
    THEN {<<top>> \o Below : top \in Operands}
    ELSE {<<top, second>> \o Below : top \in Operands, second \in Operands}

\* the values the advice provider may hand out
ClaimedCounts ==
    {Big(c) : c \in 0..MaxCount} \cup {Big(64)}

UsesAdvice(sp) ==
    \E i \in 1..Len(sp.ops) : sp.ops[i].name = "AdvPop"

AdviceFor(sp) ==
    IF UsesAdvice(sp) THEN {<<c>> : c \in ClaimedCounts} ELSE {<<>>}

\* the spans an instruction may be appended to
PriorSpans ==
    {EmptySpan, push_op(EmptySpan, Op("Noop"))}

NoInstr ==
    [name |-> "none", mode |-> "-", imm |-> None, before |-> EmptySpan]

\* Bitwise::new, a span builder and an idle processor
InitWith(spans) ==
    /\ trace = Bitwise_new
    /\ invocations = 0
    /\ lastCall = NoCall
    /\ span \in spans
    /\ asmResult = "none"
    /\ instr = NoInstr
    /\ prev = NoInstr
    /\ stack = <<>>
    /\ advice = <<>>
    /\ initStack = <<>>
    /\ initAdvice = <<>>
    /\ status = "init"
    /\ errCode = ZERO
    /\ fragment = <<>>
    /\ fill = NoFill
    /\ injector = NoInjector
    /\ rendered = <<>>

Init ==
    InitWith(PriorSpans)

InitBitwise ==
    InitWith({EmptySpan})

\* one call of a lowering function; r is what it returns
Compile(name, mode, imm, r) ==
    /\ span' = r.span
    /\ asmResult' = r.res
    /\ instr' = [name |-> name, mode |-> mode, imm |-> imm, before |-> span]
    /\ prev' = instr
    /\ status' = IF r.res = "ok" THEN "compiled" ELSE "rejected"
    /\ UNCHANGED <<bitwiseVars, fillVars, displayVars, stack, advice, initStack, initAdvice,
                   errCode>>

Compile_u32assertw ==
    /\ status = "init"
    /\ \E err_code \in {ZERO, Big(5)} :
            Compile("u32assertw", "-", Some(err_code), u32assertw(span, err_code))

Compile_u32add ==
    /\ status = "init"
    /\ \E m \in Modes, imm \in Imm32 : Compile("u32add", m, imm, u32add(span, m, imm))

Compile_u32sub ==
    /\ status = "init"
    /\ \E m \in Modes, imm \in Imm32 : Compile("u32sub", m, imm, u32sub(span, m, imm))

Compile_u32mul ==
    /\ status = "init"
    /\ \E m \in Modes, imm \in Imm32 : Compile("u32mul", m, imm, u32mul(span, m, imm))

Compile_u32div ==
    /\ status = "init"
    /\ \E imm \in Imm32 : Compile("u32div", "-", imm, u32div(span, imm))

Compile_u32mod ==
    /\ status = "init"
    /\ \E imm \in Imm32 : Compile("u32mod", "-", imm, u32mod(span, imm))

Compile_u32divmod ==
    /\ status = "init"
    /\ \E imm \in Imm32 : Compile("u32divmod", "-", imm, u32divmod(span, imm))

Compile_u32not ==
    /\ status = "init"
    /\ Compile("u32not", "-", None, u32not(span))

Compile_u32shl ==
    /\ status = "init"
    /\ \E imm \in Imm8 : Compile("u32shl", "-", imm, u32shl(span, imm))

Compile_u32shr ==
    /\ status = "init"
    /\ \E imm \in Imm8 : Compile("u32shr", "-", imm, u32shr(span, imm))

Compile_u32rotl ==
    /\ status = "init"
    /\ \E imm \in Imm8 : Compile("u32rotl", "-", imm, u32rotl(span, imm))

Compile_u32rotr ==
    /\ status = "init"
    /\ \E imm \in Imm8 : Compile("u32rotr", "-", imm, u32rotr(span, imm))

Compile_u32clz ==
    /\ status = "init"
    /\ Compile("u32clz", "-", None, u32clz(span))

Compile_u32ctz ==
    /\ status = "init"
    /\ Compile("u32ctz", "-", None, u32ctz(span))

Compile_u32clo ==
    /\ status = "init"
    /\ Compile("u32clo", "-", None, u32clo(span))

Compile_u32cto ==
    /\ status = "init"
    /\ Compile("u32cto", "-", None, u32cto(span))

Compile_u32popcnt ==
    /\ status = "init"
    /\ Compile("u32popcnt", "-", None, u32popcnt(span))

Compile_u32lt ==
    /\ status = "init"
    /\ Compile("u32lt", "-", None, u32lt(span))

Compile_u32lte ==
    /\ status = "init"
    /\ Compile("u32lte", "-", None, u32lte(span))

Compile_u32gt ==
    /\ status = "init"
    /\ Compile("u32gt", "-", None, u32gt(span))

Compile_u32gte ==
    /\ status = "init"
    /\ Compile("u32gte", "-", None, u32gte(span))

Compile_u32min ==
    /\ status = "init"
    /\ Compile("u32min", "-", None, u32min(span))

Compile_u32max ==
    /\ status = "init"
    /\ Compile("u32max", "-", None, u32max(span))

\* the processor runs the span to its end or to the first error
ExecuteSpan ==
    /\ status = "compiled"
    /\ \E s0 \in InputStacks(instr), adv \in AdviceFor(span) :
          \E r \in {Execute(span.ops, s0, adv)} :
              /\ stack' = r.stack
              /\ advice' = r.advice
              /\ initStack' = s0
              /\ initAdvice' = adv
              /\ status' = IF r.status = "ok" THEN "halted" ELSE r.status
              /\ errCode' = r.err_code
    /\ UNCHANGED <<bitwiseVars, fillVars, displayVars, asmVars>>

Next ==
    \/ Compile_u32assertw
    \/ Compile_u32add
    \/ Compile_u32sub
    \/ Compile_u32mul
    \/ Compile_u32div
    \/ Compile_u32mod
    \/ Compile_u32divmod
    \/ Compile_u32not
    \/ Compile_u32shl
    \/ Compile_u32shr
    \/ Compile_u32rotl
    \/ Compile_u32rotr
    \/ Compile_u32clz
    \/ Compile_u32ctz
    \/ Compile_u32clo
    \/ Compile_u32cto
    \/ Compile_u32popcnt
    \/ Compile_u32lt
    \/ Compile_u32lte
    \/ Compile_u32gt
    \/ Compile_u32gte
    \/ Compile_u32min
    \/ Compile_u32max
    \/ ExecuteSpan

Spec ==
    Init /\ [][Next]_vars

NextBitwise ==
    \/ Invoke_u32and
    \/ Invoke_u32or
    \/ Invoke_u32xor

SpecBitwise ==
    InitBitwise /\ [][NextBitwise]_vars

InitOperands ==
    /\ trace = Bitwise_new
    /\ invocations = 0
    /\ lastCall \in {PendingCall(a, b) : a \in FieldOperands, b \in FieldOperands}
    /\ span = EmptySpan
    /\ asmResult = "none"
    /\ instr = NoInstr
    /\ prev = NoInstr
    /\ stack = <<>>
    /\ advice = <<>>
    /\ initStack = <<>>
    /\ initAdvice = <<>>
    /\ status = "init"
    /\ errCode = ZERO
    /\ fragment = <<>>
    /\ fill = NoFill
    /\ injector = NoInjector
    /\ rendered = <<>>

NextOperands ==
    \/ Apply_u32and
    \/ Apply_u32or
    \/ Apply_u32xor

SpecOperands ==
    InitOperands /\ [][NextOperands]_vars

NextDisplay ==
    \/ Display

SpecDisplay ==
    InitBitwise /\ [][NextDisplay]_vars

NextFill ==
    \/ Invoke_u32and
    \/ Invoke_u32or
    \/ Invoke_u32xor
    \/ FillTrace

SpecFill ==
    InitBitwise /\ [][NextFill]_vars

(***************************************************************************)
(* Two instructions in one span: u32rotl with an immediate, then u32rotr   *)
(* with an immediate, executed on one operand.                             *)
(***************************************************************************)
MaxRot == 32

RotAmounts ==
    0..MaxRot

InitRoundTrip ==
    InitWith({EmptySpan})

First_u32rotl ==
    /\ status = "init"
    /\ \E k \in RotAmounts : Compile("u32rotl", "-", Some(k), u32rotl(span, Some(k)))

Then_u32rotr ==
    /\ status = "compiled"
    /\ prev = NoInstr
    /\ instr.name = "u32rotl"
    /\ \E k \in RotAmounts : Compile("u32rotr", "-", Some(k), u32rotr(span, Some(k)))

NextRoundTrip ==
    \/ First_u32rotl
    \/ Then_u32rotr
    \/ ExecuteSpan

SpecRoundTrip ==
    InitRoundTrip /\ [][NextRoundTrip]_vars

(***************************************************************************)
(* Reference definitions used to state the properties: bits of a value,    *)
(* the bitwise operations bit by bit, the zero and one counts of a 32-bit  *)
(* value, and 32-bit addition on 16-bit halves.                            *)
(***************************************************************************)
Bit(x, i) ==
    BitOf(Digit(x, (i \div 4) + 1), i % 4)

RefBit(op, p, q) ==
    CASE op = "and" -> p * q
      [] op = "or"  -> p + q - p * q
      [] op = "xor" -> (p + q) % 2

RECURSIVE LeadingRun(_, _, _)
\* the number of bits i, i - 1, ... of x equal to v before the first other bit
LeadingRun(x, v, i) ==
    IF i < 0 \/ Bit(x, i) # v THEN 0 ELSE 1 + LeadingRun(x, v, i - 1)

RECURSIVE TrailingRun(_, _, _)
\* the number of bits i, i + 1, ... of x equal to v before the first other bit
TrailingRun(x, v, i) ==
    IF i > 31 \/ Bit(x, i) # v THEN 0 ELSE 1 + TrailingRun(x, v, i + 1)

\* the count the instruction named name is to compute for the 32-bit value n
TrueCount(name, n) ==
    CASE name = "u32clz" -> LeadingRun(n, 0, 31)
      [] name = "u32ctz" -> TrailingRun(n, 0, 0)
      [] name = "u32clo" -> LeadingRun(n, 1, 31)
      [] name = "u32cto" -> TrailingRun(n, 1, 0)

HalfLo(x) ==
    Digit(x, 1) + 16 * Digit(x, 2) + 256 * Digit(x, 3) + 4096 * Digit(x, 4)

HalfHi(x) ==
    Digit(x, 5) + 16 * Digit(x, 6) + 256 * Digit(x, 7) + 4096 * Digit(x, 8)

FromHalves(lo, hi) ==
    Trim(<<lo % 16, (lo \div 16) % 16, (lo \div 256) % 16, (lo \div 4096) % 16,
           hi % 16, (hi \div 16) % 16, (hi \div 256) % 16, (hi \div 4096) % 16>>)

\* (a + b) mod 2^32 and the carry of a + b, for 32-bit a and b
RefSum32(a, b) ==
    LET lo == HalfLo(a) + HalfLo(b)
        hi == HalfHi(a) + HalfHi(b) + (lo \div 65536)
    IN  [sum |-> FromHalves(lo % 65536, hi % 65536), carry |-> Big(hi \div 65536)]

\* the operations the last lowering call appended to the span
Emitted ==
    SubSeq(span.ops, Len(instr.before.ops) + 1, Len(span.ops))

\* the span has been executed, to its end or to an error
Ran ==
    status \notin {"init", "compiled", "rejected"}

\* the operands a and b of a binary instruction (b is the immediate when one
\* is given, the top of the stack otherwise) and the stack below them
ArgB ==
    IF instr.imm # None THEN instr.imm[1] ELSE initStack[1]

ArgA ==
    IF instr.imm # None THEN initStack[1] ELSE initStack[2]

BelowArgs ==
    IF instr.imm # None THEN Pop(initStack, 1) ELSE Pop(initStack, 2)

(***************************************************************************)
(* Properties of the bitwise trace generator (SpecBitwise).                *)
(***************************************************************************)

\* C1: for 32-bit operands a and b, u32and, u32or and u32xor return a & b,
\* a | b and a ^ b (bit i of the result is the operation applied to bit i of
\* a and of b, and the result is a 32-bit value), and column 10 at the 8th
\* row of the invocation holds the returned value.
C1_BitwiseResult ==
    (lastCall.op # "none" /\ IsU32(lastCall.a) /\ IsU32(lastCall.b)) =>
        /\ IsU32(lastCall.result)
        /\ \A i \in 0..31 :
              Bit(lastCall.result, i) =
                  RefBit(lastCall.op, Bit(lastCall.a, i), Bit(lastCall.b, i))
        /\ trace[10][lastCall.start + 8] = lastCall.result

C1_Witness ==
    /\ invocations = 2
    /\ lastCall.op = "and"
    /\ lastCall.a = Hex(<<1, 2, 3, 4, 5, 6, 7, 8>>)
    /\ lastCall.b = Hex(<<8, 0, 0, 0, 15, 0, 10, 5>>)
    /\ lastCall.result = Hex(<<5, 0, 2, 0>>)
    /\ trace[10][16] = lastCall.result

\* C2: the 11 columns of the trace always have the same length, every
\* invocation of u32and, u32or or u32xor adds exactly 8 rows, and trace_len
\* is 8 times the number of invocations.
C2_TraceShape ==
    /\ \A c \in 0..10 : Len(trace[c]) = 8 * invocations
    /\ trace_len(trace) = 8 * invocations
    /\ lastCall.op # "none" => trace_len(trace) = lastCall.start + 8

C2_Witness ==
    /\ invocations = 2
    /\ lastCall.op = "xor"
    /\ lastCall.start = 8
    /\ \A c \in 0..10 : Len(trace[c]) = 16

(***************************************************************************)
(* Properties of the lowered u32 instructions (Spec).                      *)
(***************************************************************************)

\* C3: for every 32-bit n and every claimed count c other than the true
\* count of leading (u32clz) or trailing (u32ctz) zeros of n, the run of the
\* lowered check ends in a failed Assert.
C3_WrongCountAborts ==
    (/\ instr.name \in {"u32clz", "u32ctz"}
     /\ Ran
     /\ IsU32(initStack[1])
     /\ initAdvice[1] # Big(TrueCount(instr.name, initStack[1])))
        => status = "FailedAssertion"

\* C4: with the true count as the advice value, u32clz, u32ctz, u32clo and
\* u32cto pass the Assert and leave the count where n was, with the rest of
\* the stack untouched; for u32clo and u32cto the value handed to the
\* zero-count check is the 32-bit complement of n.
C4_TrueCountAccepted ==
    (/\ instr.name \in {"u32clz", "u32ctz", "u32clo", "u32cto"}
     /\ Ran
     /\ IsU32(initStack[1])
     /\ initAdvice[1] = Big(TrueCount(instr.name, initStack[1])))
        => /\ status = "halted"
           /\ stack = <<initAdvice[1]>> \o Pop(initStack, 1)
           /\ instr.name \in {"u32clo", "u32cto"} =>
                \E pre \in {Execute(SubSeq(Emitted, 1, 6), initStack, initAdvice)} :
                    /\ pre.status = "ok"
                    /\ pre.stack[1] = initAdvice[1]
                    /\ IsU32(pre.stack[2])
                    /\ \A i \in 0..31 : Bit(pre.stack[2], i) = 1 - Bit(initStack[1], i)
                    /\ Pop(pre.stack, 2) = Pop(initStack, 1)
                    /\ SubSeq(Emitted, 7, Len(Emitted)) = calculate_clz(EmptySpan).span.ops
                       \/ SubSeq(Emitted, 7, Len(Emitted)) = calculate_ctz(EmptySpan).span.ops

C4_Witness ==
    /\ instr.name = "u32cto"
    /\ status = "halted"
    /\ initStack[1] = Hex(<<1, 2, 3, 4, 5, 6, 7, 8>>)
    /\ initAdvice = <<ZERO>>
    /\ stack = <<ZERO>> \o Below

\* C4, the two extreme operands: u32clz of 0 and u32clo of 2^32 - 1 are
\* accepted with the count 32.
C4_WitnessExtremes ==
    /\ instr.name \in {"u32clz", "u32clo"}
    /\ status = "halted"
    /\ initStack[1] = (IF instr.name = "u32clz" THEN ZERO ELSE U32_MAX)
    /\ stack[1] = Big(32)

\* C5: on 32-bit operands a and b, u32wrapping_add leaves (a + b) mod 2^32 in
\* their place, and u32overflowing_add leaves (a + b) mod 2^32 with, on top
\* of it, a carry that is 1 exactly when a + b >= 2^32.
C5_AddResult ==
    (instr.name = "u32add" /\ Ran /\ IsU32(ArgA) /\ IsU32(ArgB)) =>
        /\ status = "halted"
        /\ instr.mode = "Wrapping" =>
              stack = <<RefSum32(ArgA, ArgB).sum>> \o BelowArgs
        /\ instr.mode = "Overflowing" =>
              stack = <<RefSum32(ArgA, ArgB).carry, RefSum32(ArgA, ArgB).sum>> \o BelowArgs
        /\ RefSum32(ArgA, ArgB).carry = Bool(BLeq(TWO_POW_32, BAdd(ArgA, ArgB)))

C5_Witness ==
    /\ instr.name = "u32add"
    /\ instr.mode = "Overflowing"
    /\ instr.imm = None
    /\ status = "halted"
    /\ initStack[1] = U32_MAX
    /\ initStack[2] = Big(5)
    /\ stack = <<ONE, Big(4)>> \o Below

\* C6: u32div, u32mod and u32divmod with the immediate Some(0) return the
\* division-by-zero error and leave the span as it was; with a nonzero
\* immediate or without an immediate they succeed.
C6_DivisionByZero ==
    instr.name \in {"u32div", "u32mod", "u32divmod"} =>
        /\ instr.imm = Some(ZERO) =>
              asmResult = "division_by_zero" /\ span = instr.before
        /\ instr.imm # Some(ZERO) => asmResult = "ok"

C6_Witness ==
    /\ instr.name = "u32mod"
    /\ instr.imm = Some(ZERO)
    /\ instr.before # EmptySpan
    /\ asmResult = "division_by_zero"
    /\ status = "rejected"

\* C7: u32shl, u32shr, u32rotl and u32rotr with the immediate Some(0) succeed
\* and append exactly one operation, Noop.
C7_ShiftByZero ==
    (instr.name \in {"u32shl", "u32shr", "u32rotl", "u32rotr"} /\ instr.imm = Some(0)) =>
        /\ asmResult = "ok"
        /\ Emitted = <<Op("Noop")>>
        /\ span.decorators = instr.before.decorators

C7_Witness ==
    /\ instr.name = "u32shl"
    /\ instr.imm = Some(0)
    /\ instr.before # EmptySpan
    /\ status = "halted"
    /\ stack = initStack

\* C8: for every 8-bit immediate k, u32shl, u32shr, u32rotl and u32rotr
\* succeed exactly when k is in 0..31; for any other k they return an error
\* and append no operation.
C8_ImmediateRange ==
    (instr.name \in {"u32shl", "u32shr", "u32rotl", "u32rotr"} /\ instr.imm # None) =>
        /\ asmResult = "ok" <=> instr.imm[1] \in 0..31
        /\ instr.imm[1] \notin 0..31 =>
              asmResult = "param_out_of_bounds" /\ span = instr.before

C8_Witness ==
    /\ instr.name = "u32rotl"
    /\ instr.imm = Some(32)
    /\ instr.before # EmptySpan
    /\ asmResult = "param_out_of_bounds"
    /\ span = instr.before

\* C8, the largest accepted immediate: u32shr by 31 is lowered and run.
C8_WitnessAccepted ==
    /\ instr.name = "u32shr"
    /\ instr.imm = Some(31)
    /\ asmResult = "ok"
    /\ status = "halted"
    /\ initStack[1] = U32_MAX
    /\ stack[1] = ONE

\* C10: u32add, u32sub and u32mul emit the push of the immediate (only when
\* an immediate is given), then U32add, U32sub or U32mul, then Drop exactly
\* in Wrapping mode; u32wrapping_add with the immediate 5 emits Push(5),
\* U32add, Drop and u32overflowing_add without an immediate emits U32add.
C10_ArithmeticLowering ==
    instr.name \in {"u32add", "u32sub", "u32mul"} =>
        /\ asmResult = "ok"
        /\ Emitted =
              (IF instr.imm # None THEN push_u32_value(EmptySpan, instr.imm[1]).ops ELSE <<>>)
              \o <<Op(CASE instr.name = "u32add" -> "U32add"
                        [] instr.name = "u32sub" -> "U32sub"
                        [] instr.name = "u32mul" -> "U32mul")>>
              \o (IF instr.mode = "Wrapping" THEN <<Op("Drop")>> ELSE <<>>)
        /\ (instr.name = "u32add" /\ instr.mode = "Wrapping" /\ instr.imm = Some(Big(5))) =>
              Emitted = <<Push(Big(5)), Op("U32add"), Op("Drop")>>
        /\ (instr.name = "u32add" /\ instr.mode = "Overflowing" /\ instr.imm = None) =>
              Emitted = <<Op("U32add")>>

C10_Witness ==
    /\ instr.name = "u32add"
    /\ instr.mode = "Wrapping"
    /\ instr.imm = Some(Big(5))
    /\ instr.before # EmptySpan
    /\ Emitted = <<Push(Big(5)), Op("U32add"), Op("Drop")>>

(***************************************************************************)
(* Property of u32rotl followed by u32rotr (SpecRoundTrip).                *)
(***************************************************************************)

\* C9: for every 32-bit x and every immediate r accepted by the assembler,
\* u32rotl by r followed by u32rotr by r leaves x on the stack.
C9_RotateRoundTrip ==
    (/\ prev.name = "u32rotl"
     /\ instr.name = "u32rotr"
     /\ prev.imm = instr.imm
     /\ Ran
     /\ IsU32(initStack[1]))
        => status = "halted" /\ stack = initStack

C9_Witness ==
    /\ prev.name = "u32rotl"
    /\ instr.name = "u32rotr"
    /\ prev.imm = Some(31)
    /\ instr.imm = Some(31)
    /\ status = "halted"
    /\ initStack[1] = Hex(<<1, 2, 3, 4, 5, 6, 7, 8>>)
    /\ stack = initStack

(***************************************************************************)
(* Further reference definitions: the number of set bits and the order of  *)
(* 32-bit values.                                                          *)
(***************************************************************************)
RECURSIVE SumBits(_, _)
\* the number of set bits among the bits i..31 of x
SumBits(x, i) ==
    IF i > 31 THEN 0 ELSE Bit(x, i) + SumBits(x, i + 1)

\* a < b for 32-bit a and b, on 16-bit halves
RefLess(a, b) ==
    \/ HalfHi(a) < HalfHi(b)
    \/ HalfHi(a) = HalfHi(b) /\ HalfLo(a) < HalfLo(b)

(***************************************************************************)
(* Properties of u32popcnt, u32min, u32max and the comparisons (Spec).     *)
(***************************************************************************)

\* C11: u32popcnt emits one fixed sequence of exactly 33 operations, and
\* executing it on a 32-bit x leaves the number of set bits of x in place of
\* x (0 for x = 0, 32 for x = 2^32 - 1).
C11_Popcnt ==
    instr.name = "u32popcnt" =>
        /\ asmResult = "ok"
        /\ Len(Emitted) = 33
        /\ Emitted = u32popcnt(EmptySpan).span.ops
        /\ (Ran /\ IsU32(initStack[1])) =>
              /\ status = "halted"
              /\ stack = <<Big(SumBits(initStack[1], 0))>> \o Pop(initStack, 1)
              /\ initStack[1] = ZERO => stack[1] = ZERO
              /\ initStack[1] = U32_MAX => stack[1] = Big(32)

C11_Witness ==
    /\ instr.name = "u32popcnt"
    /\ instr.before # EmptySpan
    /\ status = "halted"
    /\ initStack[1] = Hex(<<1, 2, 3, 4, 5, 6, 7, 8>>)
    /\ stack = <<Big(13)>> \o Below

\* C12: for 32-bit a and b in either stack order (a = b included), u32min
\* replaces the two operands by min(a, b) and u32max by max(a, b); after the
\* compute_max_and_min prefix the larger operand is on top and the smaller
\* directly below it.
C12_MinMax ==
    (/\ instr.name \in {"u32min", "u32max"}
     /\ Ran
     /\ IsU32(initStack[1])
     /\ IsU32(initStack[2]))
        => LET b == initStack[1]
               a == initStack[2]
               smaller == IF RefLess(a, b) THEN a ELSE b
               larger == IF RefLess(a, b) THEN b ELSE a
           IN  /\ status = "halted"
               /\ stack = <<IF instr.name = "u32min" THEN smaller ELSE larger>>
                          \o Pop(initStack, 2)
               /\ \E pre \in {Execute(SubSeq(Emitted, 1, 7), initStack, initAdvice)} :
                     /\ pre.status = "ok"
                     /\ pre.stack = <<larger, smaller>> \o Pop(initStack, 2)

C12_Witness ==
    /\ instr.name = "u32min"
    /\ status = "halted"
    /\ initStack[1] = ONE
    /\ initStack[2] = Big(5)
    /\ stack = <<ONE>> \o Below

\* C12, the other order and u32max: the larger operand starts on top.
C12_WitnessMax ==
    /\ instr.name = "u32max"
    /\ status = "halted"
    /\ initStack[1] = U32_MAX
    /\ initStack[2] = Big(5)
    /\ stack = <<U32_MAX>> \o Below

\* C14: for 32-bit a (second from the top) and b (top), u32lt, u32lte, u32gt
\* and u32gte replace the operands by 1 if a < b, a <= b, a > b, a >= b
\* respectively and by 0 otherwise; u32lt is the five operations of
\* compute_lt, u32lte is Swap, compute_lt, Not, u32gt is Swap, compute_lt and
\* u32gte is compute_lt, Not.
C14_Comparisons ==
    LET lt == <<Op("U32sub"), Op("Swap"), Op("Drop"), Op("Eqz"), Op("Not")>>
    IN  /\ instr.name = "u32lt" => asmResult = "ok" /\ Emitted = lt
        /\ instr.name = "u32lte" =>
              asmResult = "ok" /\ Emitted = <<Op("Swap")>> \o lt \o <<Op("Not")>>
        /\ instr.name = "u32gt" => asmResult = "ok" /\ Emitted = <<Op("Swap")>> \o lt
        /\ instr.name = "u32gte" => asmResult = "ok" /\ Emitted = lt \o <<Op("Not")>>
        /\ (/\ instr.name \in {"u32lt", "u32lte", "u32gt", "u32gte"}
            /\ Ran
            /\ IsU32(initStack[1])
            /\ IsU32(initStack[2]))
              => LET b == initStack[1]
                     a == initStack[2]
                     holds == CASE instr.name = "u32lt" -> RefLess(a, b)
                                [] instr.name = "u32lte" -> ~RefLess(b, a)
                                [] instr.name = "u32gt" -> RefLess(b, a)
                                [] instr.name = "u32gte" -> ~RefLess(a, b)
                 IN  /\ status = "halted"
                     /\ stack = <<Bool(holds)>> \o Pop(initStack, 2)

C14_Witness ==
    /\ instr.name = "u32lte"
    /\ status = "halted"
    /\ initStack[1] = Big(5)
    /\ initStack[2] = Big(5)
    /\ stack = <<ONE>> \o Below

\* C14, a strict comparison that is false: u32gt with a < b.
C14_WitnessFalse ==
    /\ instr.name = "u32gt"
    /\ status = "halted"
    /\ initStack[1] = U32_MAX
    /\ initStack[2] = ONE
    /\ stack = <<ZERO>> \o Below

(***************************************************************************)
(* Property of fill_trace (SpecFill).                                      *)
(***************************************************************************)

\* C13: fill_trace is all-or-abort: when the fragment has width 11 and
\* length trace_len(), every cell of each of the 11 columns is copied into
\* the corresponding fragment column; when the width or the length differs,
\* the call aborts and never returns.
C13_FillAllOrAbort ==
    fill.status # "none" =>
        IF Fragment_width(fragment) = 11 /\ Fragment_len(fragment) = trace_len(trace)
        THEN /\ fill.status = "returned"
             /\ \A c \in 0..10 : fragment[c + 1] = trace[c]
        ELSE fill.status = "panicked"

(***************************************************************************)
(* Property of the textual form of the advice injectors (SpecDisplay).     *)
(***************************************************************************)
NameChars ==
    {"a", "b", "c", "d", "e", "f", "g", "h", "i", "j", "k", "l", "m", "n", "o", "p",
     "q", "r", "s", "t", "u", "v", "w", "x", "y", "z",
     "0", "1", "2", "3", "4", "5", "6", "7", "8", "9", "_"}

\* the position of the first "." of str, Len(str) + 1 if there is none
FirstDot(str) ==
    IF \E i \in 1..Len(str) : str[i] = "."
    THEN CHOOSE i \in 1..Len(str) : str[i] = "." /\ \A j \in 1..(i - 1) : str[j] # "."
    ELSE Len(str) + 1

NamePart(str) ==
    SubSeq(str, 1, FirstDot(str) - 1)

SuffixPart(str) ==
    SubSeq(str, FirstDot(str) + 1, Len(str))

CharValue(ch) ==
    CHOOSE d \in 0..9 : DigitChar(d) = ch

IsDecimal(str) ==
    /\ str # <<>>
    /\ \A i \in 1..Len(str) : str[i] \in {DigitChar(d) : d \in 0..9}
    /\ Len(str) > 1 => str[1] # "0"

RECURSIVE ParseDecimal(_, _)
\* the number, as a digit sequence in base 16, that the decimal str denotes
\* when appended to the decimal digits of acc
ParseDecimal(str, acc) ==
    IF str = <<>> THEN acc
    ELSE ParseDecimal(Tail(str), BAdd(BMul(acc, Big(10)), Big(CharValue(Head(str)))))

\* C15: an advice injector renders as a lowercase snake-case name, followed
\* by "." and a parameter exactly for the variants with fields:
\* MapValueToStack is "map_value_to_stack_with_len.<key_offset>" when
\* include_len holds and "map_value_to_stack.<key_offset>" otherwise,
\* HdwordToMap is "hdword_to_map.<domain>", SigToStack is
\* "sig_to_stack.<kind>"; every other variant renders without a suffix.
C15_Rendering ==
    injector.tag # "none" =>
        /\ NamePart(rendered) # <<>>
        /\ \A i \in 1..Len(NamePart(rendered)) : NamePart(rendered)[i] \in NameChars
        /\ injector.tag \in PlainInjectors => rendered = NamePart(rendered)
        /\ injector.tag \notin PlainInjectors =>
              Len(rendered) > Len(NamePart(rendered)) + 1
        /\ injector.tag = "MapValueToStack" =>
              /\ NamePart(rendered) =
                    (IF injector.include_len
                     THEN <<"m", "a", "p", "_", "v", "a", "l", "u", "e", "_", "t", "o", "_",
                            "s", "t", "a", "c", "k", "_", "w", "i", "t", "h", "_", "l", "e", "n">>
                     ELSE <<"m", "a", "p", "_", "v", "a", "l", "u", "e", "_", "t", "o", "_",
                            "s", "t", "a", "c", "k">>)
              /\ IsDecimal(SuffixPart(rendered))
              /\ ParseDecimal(SuffixPart(rendered), ZERO) = Big(injector.key_offset)
        /\ injector.tag = "HdwordToMap" =>
              /\ NamePart(rendered) =
                    <<"h", "d", "w", "o", "r", "d", "_", "t", "o", "_", "m", "a", "p">>
              /\ SuffixPart(rendered) = Display_Felt(injector.domain)
        /\ injector.tag = "SigToStack" =>
              /\ NamePart(rendered) =
                    <<"s", "i", "g", "_", "t", "o", "_", "s", "t", "a", "c", "k">>
              /\ SuffixPart(rendered) = Display_SignatureKind(injector.kind)

C15_Witness ==
    /\ injector.tag = "MapValueToStack"
    /\ injector.include_len
    /\ injector.key_offset = 12
    /\ rendered = <<"m", "a", "p", "_", "v", "a", "l", "u", "e", "_", "t", "o", "_",
                    "s", "t", "a", "c", "k", "_", "w", "i", "t", "h", "_", "l", "e", "n",
                    ".", "1", "2">>

(***************************************************************************)
(* Properties of the checks of u32clz and u32ctz (Spec).                   *)
(***************************************************************************)

\* the value of a count below 256 as an integer
CountValue(c) ==
    Digit(c, 1) + 16 * Digit(c, 2)

C16_WitnessRejected ==
    /\ instr.name = "u32ctz"
    /\ status = "FailedAssertion"
    /\ initStack[1] = Hex(<<8, 0, 0, 0, 0, 0, 0, 0>>)
    /\ initAdvice = <<Big(32)>>

(***************************************************************************)
(* Properties of the division instructions (Spec).                         *)
(***************************************************************************)

\* C17: for 32-bit a and nonzero 32-bit b (b on top of the stack or given as
\* a nonzero immediate), u32div replaces the operands by floor(a / b),
\* u32mod by a mod b, and u32divmod by the quotient with the remainder on top
\* of it.
C17_Division ==
    (/\ instr.name \in {"u32div", "u32mod", "u32divmod"}
     /\ Ran
     /\ IsU32(ArgA)
     /\ IsU32(ArgB)
     /\ ArgB # ZERO)
        => LET q == BDiv(ArgA, ArgB)
               r == BMod(ArgA, ArgB)
           IN  /\ BAdd(BMul(q, ArgB), r) = ArgA
               /\ BLess(r, ArgB)
               /\ status = "halted"
               /\ instr.name = "u32div" => stack = <<q>> \o BelowArgs
               /\ instr.name = "u32mod" => stack = <<r>> \o BelowArgs
               /\ instr.name = "u32divmod" => stack = <<r, q>> \o BelowArgs

C17_Witness ==
    /\ instr.name = "u32divmod"
    /\ instr.imm = Some(Big(5))
    /\ status = "halted"
    /\ initStack[1] = Hex(<<1, 2, 3, 4, 5, 6, 7, 8>>)
    /\ stack = <<ONE, Big(61083979)>> \o Below

\* C17, the divisor on the stack: u32mod of 2^32 - 1 by 5.
C17_WitnessStack ==
    /\ instr.name = "u32mod"
    /\ instr.imm = None
    /\ status = "halted"
    /\ initStack[1] = Big(5)
    /\ initStack[2] = U32_MAX
    /\ stack = <<ZERO>> \o Below

(***************************************************************************)
(* Properties of the shifts and rotations by an immediate (Spec).          *)
(***************************************************************************)

\* x is 2^k: bit k is its only set bit
IsPow2(x, k) ==
    /\ Len(x) <= 9
    /\ \A i \in 0..35 : Bit(x, i) = 1 <=> i = k

\* bit i of the 32-bit result of the instruction name on a with the amount k
ShiftedBit(name, a, k, i) ==
    CASE name = "u32shl" -> IF i >= k THEN Bit(a, i - k) ELSE 0
      [] name = "u32shr" -> IF i + k <= 31 THEN Bit(a, i + k) ELSE 0
      [] name = "u32rotl" -> Bit(a, (i + 32 - k) % 32)
      [] name = "u32rotr" -> Bit(a, (i + k) % 32)

\* C18: for a 32-bit a and an immediate k in 1..31, u32shl emits Push(2^k),
\* U32mul, Drop and yields (a * 2^k) mod 2^32; u32shr emits Push(2^k), U32div,
\* Drop and yields floor(a / 2^k); u32rotl emits Push(2^k), U32mul, Add and
\* yields a rotated left by k bits; u32rotr emits Push(2^(32 - k)), U32mul,
\* Add and yields a rotated right by k bits; every result is a 32-bit value.
C18_ShiftsAndRotations ==
    (/\ instr.name \in {"u32shl", "u32shr", "u32rotl", "u32rotr"}
     /\ instr.imm # None
     /\ instr.imm[1] \in 1..31)
        => /\ asmResult = "ok"
           /\ Len(Emitted) = 3
           /\ Emitted[1].name = "Push"
           /\ IsPow2(Emitted[1].arg,
                     IF instr.name = "u32rotr" THEN 32 - instr.imm[1] ELSE instr.imm[1])
           /\ SubSeq(Emitted, 2, 3) =
                 (CASE instr.name = "u32shl" -> <<Op("U32mul"), Op("Drop")>>
                    [] instr.name = "u32shr" -> <<Op("U32div"), Op("Drop")>>
                    [] instr.name = "u32rotl" -> <<Op("U32mul"), Op("Add")>>
                    [] instr.name = "u32rotr" -> <<Op("U32mul"), Op("Add")>>)
           /\ (Ran /\ IsU32(initStack[1])) =>
                 /\ status = "halted"
                 /\ Len(stack) = Len(initStack)
                 /\ Pop(stack, 1) = Pop(initStack, 1)
                 /\ IsU32(stack[1])
                 /\ \A i \in 0..31 :
                       Bit(stack[1], i) =
                           ShiftedBit(instr.name, initStack[1], instr.imm[1], i)

C18_Witness ==
    /\ instr.name = "u32rotl"
    /\ instr.imm = Some(4)
    /\ status = "halted"
    /\ initStack[1] = Hex(<<1, 2, 3, 4, 5, 6, 7, 8>>)
    /\ stack = <<Hex(<<2, 3, 4, 5, 6, 7, 8, 1>>)>> \o Below

\* C18, a shift that loses bits: u32shl of 2^32 - 1 by 31.
C18_WitnessShl ==
    /\ instr.name = "u32shl"
    /\ instr.imm = Some(31)
    /\ status = "halted"
    /\ initStack[1] = U32_MAX
    /\ stack = <<Hex(<<8, 0, 0, 0, 0, 0, 0, 0>>)>> \o Below

(***************************************************************************)
(* Property of u32not (Spec).                                              *)
(***************************************************************************)

\* C19: u32not emits exactly the 5 operations Push(2^32 - 1), U32assert2,
\* Swap, U32sub, Drop; on a 32-bit a they replace a by (2^32 - 1) - a, the
\* 32-bit complement of a, and leave no borrow flag on the stack; on an
\* operand that is not a 32-bit value the range assertion fails and the run
\* aborts before the subtraction.
C19_Not ==
    instr.name = "u32not" =>
        /\ asmResult = "ok"
        /\ Emitted = <<Push(Hex(<<15, 15, 15, 15, 15, 15, 15, 15>>)),
                       OpArg("U32assert2", ZERO), Op("Swap"), Op("U32sub"), Op("Drop")>>
        /\ (Ran /\ IsU32(initStack[1])) =>
              /\ status = "halted"
              /\ Len(stack) = Len(initStack)
              /\ Pop(stack, 1) = Pop(initStack, 1)
              /\ IsU32(stack[1])
              /\ BAdd(stack[1], initStack[1]) = Hex(<<15, 15, 15, 15, 15, 15, 15, 15>>)
              /\ \A i \in 0..31 : Bit(stack[1], i) = 1 - Bit(initStack[1], i)
        /\ (Ran /\ ~IsU32(initStack[1])) =>
              /\ status = "NotU32Value"
              /\ stack = <<Hex(<<15, 15, 15, 15, 15, 15, 15, 15>>)>> \o initStack

C19_Witness ==
    /\ instr.name = "u32not"
    /\ status = "halted"
    /\ initStack[1] = Hex(<<1, 2, 3, 4, 5, 6, 7, 8>>)
    /\ stack = <<Hex(<<14, 13, 12, 11, 10, 9, 8, 7>>)>> \o Below

\* C19, an operand that is not a 32-bit value: 2^32.
C19_WitnessNotU32 ==
    /\ instr.name = "u32not"
    /\ status = "NotU32Value"
    /\ initStack[1] = TWO_POW_32

(***************************************************************************)
(* Property of the rows of one invocation (SpecBitwise).                   *)
(***************************************************************************)

\* cell is x >> sh for a 32-bit x
IsShifted(cell, x, sh) ==
    /\ IsU32(cell)
    /\ \A j \in 0..31 : Bit(cell, j) = (IF j + sh <= 31 THEN Bit(x, j + sh) ELSE 0)

\* C20: within one invocation on 32-bit a and b, row i (i = 0..7) holds
\* a >> (28 - 4i) in column 0 and b >> (28 - 4i) in column 1, the bits 0, 1,
\* 2, 3 of the low nibble of column 0 in columns 2..5 and those of column 1
\* in columns 6..9; so for i >= 1 column 0 at row i is 16 times column 0 at
\* row i - 1 plus the nibble of columns 2..5 (likewise column 1 with columns
\* 6..9), and at row 7 columns 0 and 1 hold a and b.
C20_RowLayout ==
    (lastCall.op # "none" /\ IsU32(lastCall.a) /\ IsU32(lastCall.b)) =>
        \A i \in 0..7 :
            LET row == lastCall.start + i + 1
                nibbleA == Bit(trace[2][row], 0) + 2 * Bit(trace[3][row], 0)
                           + 4 * Bit(trace[4][row], 0) + 8 * Bit(trace[5][row], 0)
                nibbleB == Bit(trace[6][row], 0) + 2 * Bit(trace[7][row], 0)
                           + 4 * Bit(trace[8][row], 0) + 8 * Bit(trace[9][row], 0)
            IN  /\ IsShifted(trace[0][row], lastCall.a, 28 - 4 * i)
                /\ IsShifted(trace[1][row], lastCall.b, 28 - 4 * i)
                /\ \A k \in 0..3 :
                      /\ trace[2 + k][row] = Big(Bit(trace[0][row], k))
                      /\ trace[6 + k][row] = Big(Bit(trace[1][row], k))
                /\ i >= 1 =>
                      /\ trace[0][row] = BAdd(BMul(Big(16), trace[0][row - 1]), Big(nibbleA))
                      /\ trace[1][row] = BAdd(BMul(Big(16), trace[1][row - 1]), Big(nibbleB))
                /\ i = 7 => trace[0][row] = lastCall.a /\ trace[1][row] = lastCall.b

C20_Witness ==
    /\ invocations = 2
    /\ lastCall.op = "or"
    /\ lastCall.a = Hex(<<13, 14, 10, 13, 11, 14, 14, 15>>)
    /\ trace[0][9] = Hex(<<13>>)
    /\ trace[0][10] = Hex(<<13, 14>>)
    /\ <<trace[2][9], trace[3][9], trace[4][9], trace[5][9]>> = <<ONE, ZERO, ONE, ONE>>
    /\ trace[0][16] = lastCall.a


\* the operation of the helper named op, on a trace t
Bitwise_op(op, t, a, b) ==
    CASE op = "and" -> Bitwise_u32and(t, a, b)
      [] op = "or"  -> Bitwise_u32or(t, a, b)
      [] op = "xor" -> Bitwise_u32xor(t, a, b)

\* the 4-bit value op(low nibble of x, low nibble of y)
RefNibble(op, x, y) ==
    Big(RefBit(op, Bit(x, 0), Bit(y, 0)) + 2 * RefBit(op, Bit(x, 1), Bit(y, 1))
        + 4 * RefBit(op, Bit(x, 2), Bit(y, 2)) + 8 * RefBit(op, Bit(x, 3), Bit(y, 3)))

\* C21: within one invocation on 32-bit a and b, column 10 at row i
\* (i = 0..7) is the operation applied to the high 4 * (i + 1) bits of a and
\* b, which is the operation applied to columns 0 and 1 of that row; it is
\* 16 times column 10 of the previous row plus the operation applied to the
\* low nibbles of columns 0 and 1 (at row 0, that nibble alone); and the
\* columns 0..9 of the invocation are those each of the two other operations
\* writes for the same operands.
C21_ResultColumn ==
    (lastCall.op # "none" /\ IsU32(lastCall.a) /\ IsU32(lastCall.b)) =>
        /\ \A i \in 0..7 :
              LET row == lastCall.start + i + 1
                  sh == 28 - 4 * i
                  limb == RefNibble(lastCall.op, trace[0][row], trace[1][row])
              IN  /\ IsU32(trace[10][row])
                  /\ \A j \in 0..31 :
                        /\ Bit(trace[10][row], j) =
                              RefBit(lastCall.op, Bit(trace[0][row], j), Bit(trace[1][row], j))
                        /\ Bit(trace[10][row], j) =
                              (IF j + sh <= 31
                               THEN RefBit(lastCall.op, Bit(lastCall.a, j + sh),
                                           Bit(lastCall.b, j + sh))
                               ELSE 0)
                  /\ trace[10][row] =
                        (IF i = 0 THEN limb
                         ELSE BAdd(BMul(Big(16), trace[10][row - 1]), limb))
        /\ \A other \in {"and", "or", "xor"} \ {lastCall.op} :
              \A t \in {Bitwise_op(other, Bitwise_new, lastCall.a, lastCall.b).trace} :
                  \A c \in 0..9 : \A i \in 1..8 :
                      trace[c][lastCall.start + i] = t[c][i]

\* a u32xor whose column 10 differs from the one u32and and u32or write
C21_Witness ==
    /\ invocations = 2
    /\ lastCall.op = "xor"
    /\ lastCall.a = Hex(<<1, 2, 3, 4, 5, 6, 7, 8>>)
    /\ lastCall.b = Hex(<<8, 0, 0, 0, 15, 0, 10, 5>>)
    /\ trace[10][9] = Hex(<<9>>)
    /\ trace[10][10] = Hex(<<9, 2>>)
    /\ trace[10][16] = Hex(<<9, 2, 3, 4, 10, 6, 13, 13>>)
    /\ Bitwise_u32and(Bitwise_new, lastCall.a, lastCall.b).trace[10][8] = Hex(<<5, 0, 2, 0>>)


\* C22: u32assertw emits exactly the 6 operations U32assert2(err), MovUp3,
\* MovUp3, U32assert2(err), MovUp3, MovUp3 with the error code of the caller
\* in both assertions; run on a stack whose four top elements are all u32
\* values they leave the whole stack as it was, and when one of the four is
\* not a u32 value the run aborts with that error code.
C22_Assertw ==
    (instr.name = "u32assertw" /\ status # "init") =>
        /\ asmResult = "ok"
        /\ Emitted = <<OpArg("U32assert2", instr.imm[1]), Op("MovUp3"), Op("MovUp3"),
                       OpArg("U32assert2", instr.imm[1]), Op("MovUp3"), Op("MovUp3")>>
        /\ Ran =>
              IF \A k \in 1..4 : IsU32(initStack[k])
              THEN /\ status = "halted"
                   /\ stack = initStack
              ELSE /\ status = "NotU32Value"
                   /\ errCode = instr.imm[1]

C22_Witness ==
    /\ instr.name = "u32assertw"
    /\ status = "halted"
    /\ instr.imm = Some(Big(5))
    /\ initStack = <<ZERO, Hex(<<1, 2, 3, 4, 5, 6, 7, 8>>), U32_MAX, ZERO>> \o Below
    /\ stack = initStack

\* the third element of the word is not a u32 value
C22_WitnessAbort ==
    /\ instr.name = "u32assertw"
    /\ status = "NotU32Value"
    /\ instr.imm = Some(Big(5))
    /\ initStack = <<ZERO, U32_MAX, TWO_POW_32, Hex(<<1, 2, 3, 4, 5, 6, 7, 8>>)>> \o Below
    /\ errCode = Big(5)


\* C23: the trace table is append-only: every invocation of u32and, u32or
\* or u32xor leaves each row written before it as it was and pushes exactly
\* 8 cells at the end of each of the 11 columns, and trace_len never
\* decreases.
C23_AppendOnly ==
    [][/\ trace_len(trace') >= trace_len(trace)
       /\ \A c \in 0..(TRACE_WIDTH - 1) :
             /\ Len(trace'[c]) >= Len(trace[c])
             /\ SubSeq(trace'[c], 1, Len(trace[c])) = trace[c]
             /\ invocations' # invocations => Len(trace'[c]) = Len(trace[c]) + 8]_vars

\* a u32and after a u32xor: the 8 rows of the u32xor are still in the table
C23_Witness ==
    /\ invocations = 2
    /\ lastCall.op = "and"
    /\ lastCall.start = 8
    /\ lastCall.a = U32_MAX
    /\ trace[10][8] = Hex(<<9, 2, 3, 4, 10, 6, 13, 13>>)
    /\ \E first \in {Bitwise_u32xor(Bitwise_new, Hex(<<1, 2, 3, 4, 5, 6, 7, 8>>),
                                      Hex(<<8, 0, 0, 0, 15, 0, 10, 5>>)).trace} :
          \A c \in 0..10 : \A i \in 1..8 : trace[c][i] = first[c][i]
    /\ trace_len(trace) = 16


(***************************************************************************)
(* Properties of one call on arbitrary field elements (SpecOperands).      *)
(***************************************************************************)

\* C24: u32and, u32or and u32xor never return an error and do not validate
\* their operands: on any field elements a and b, of 2 ^ 32 or more
\* included, the call returns Ok, appends exactly 8 rows to each column, and
\* the returned value is below 2 ^ 32 and is the operation applied to the
\* low 32 bits of a and b; at each row column 10 takes in only the operation
\* applied to the low nibbles of the shifted operands in columns 0 and 1.
C24_NoValidation ==
    lastCall.op \notin {"none", "pending"} =>
        /\ lastCall.res = "ok"
        /\ \A c \in 0..(TRACE_WIDTH - 1) : Len(trace[c]) = lastCall.start + 8
        /\ IsU32(lastCall.result)
        /\ \A j \in 0..31 :
              Bit(lastCall.result, j) =
                  RefBit(lastCall.op, Bit(lastCall.a, j), Bit(lastCall.b, j))
        /\ \A i \in 0..7 :
              LET row == lastCall.start + i + 1
                  limb == RefNibble(lastCall.op, trace[0][row], trace[1][row])
              IN  /\ trace[0][row] = Shr(lastCall.a, 28 - 4 * i)
                  /\ trace[1][row] = Shr(lastCall.b, 28 - 4 * i)
                  /\ trace[10][row] =
                        (IF i = 0 THEN limb
                         ELSE BAdd(BMul(Big(16), trace[10][row - 1]), limb))
        /\ trace[10][lastCall.start + 8] = lastCall.result

\* a u32or of 0x123456789 and p - 1 = 0xFFFFFFFF00000000
C24_Witness ==
    /\ lastCall.op = "or"
    /\ lastCall.a = Hex(<<1, 2, 3, 4, 5, 6, 7, 8, 9>>)
    /\ lastCall.b = BSub(FeltModulus, ONE)
    /\ ~IsU32(lastCall.a)
    /\ ~IsU32(lastCall.b)
    /\ lastCall.res = "ok"
    /\ lastCall.result = Hex(<<2, 3, 4, 5, 6, 7, 8, 9>>)
    /\ trace[0][1] = Hex(<<1, 2>>)
    /\ trace_len(trace) = 8

====
